---- MODULE Spec2Model ----
(***************************************************************************)
(* GeoChain: the encrypted aggregate ledger (contract GeoChainFHE).        *)
(*                                                                         *)
(* The ledger keeps, per player, an encrypted running total (euint32), per *)
(* result an encrypted score, public statistics and one-time badge claims. *)
(* Every external function of the contract is one action; a reverted call  *)
(* leaves the storage and the event log as they were.                      *)
(***************************************************************************)
EXTENDS Integers, Naturals, Sequences, FiniteSets, TLC

(***************************************************************************)
(* Bounds of the model.                                                    *)
(***************************************************************************)
\* events (accepted calls) explored from the constructed ledger
MaxEvents == 3
\* results the veteran player already has in the initial state of SpecVeteran
VeteranGames == 9
\* events explored after them
MaxVeteranEvents == 2
\* block.timestamp of the first block explored (Unix seconds)
StartTime == 1700000000

(***************************************************************************)
(* Program constants.                                                      *)
(***************************************************************************)
\* Solidity time units of claimBadge: `1 days`, `7 days`
OneDay == 86400
SevenDays == 604800
\* first value of the result id counter
FirstResultId == 1
\* thresholds of the badge table
MinGamesFirstTry == 1
MinTotalScore == 10
MinHighScore == 20
MinGamesActive == 3
MinGamesVeteran == 10
\* an euint32 cleartext is two 16-bit limbs <<hi, lo>>: 2^32 = LimbBase * LimbBase
LimbBase == 65536

Participants == {"alice", "bob"}
LedgerAddress == "GeoChainFHE"

\* badge ids passed to claimBadge: the six of the table, one below, one above
BadgeIds == 0..7
KnownBadgeIds == 1..6

\* block timestamps explored: the start, and one and seven days later, each
\* with the second after it
TimePoints ==
  {StartTime + d : d \in {0, OneDay, OneDay + 1, SevenDays, SevenDays + 1}}
\* the two of them explored from the constructed ledger
EarlyTimePoints == {StartTime, StartTime + OneDay}

(***************************************************************************)
(* euint32 cleartexts, as limbs, and the unbounded sum they are compared   *)
(* with (three limbs <<carry, hi, lo>>, carry unbounded).                  *)
(***************************************************************************)
Zero32 == <<0, 0>>
U32(hi, lo) == <<hi, lo>>

\* FHE.add on euint32 wraps modulo 2^32
Add32(a, b) ==
  LET lo == a[2] + b[2]
      hi == a[1] + b[1] + (lo \div LimbBase)
  IN  <<hi % LimbBase, lo % LimbBase>>

\* mathematical addition of a 32-bit value to an unbounded number
AddWide(w, a) ==
  LET lo == w[3] + a[2]
      hi == w[2] + a[1] + (lo \div LimbBase)
  IN  <<w[1] + (hi \div LimbBase), hi % LimbBase, lo % LimbBase>>

ZeroWide == <<0, 0, 0>>
Wide(a) == <<0, a[1], a[2]>>
Low32(w) == <<w[2], w[3]>>

(***************************************************************************)
(* Handles.  A handle is an opaque reference to a ciphertext that the FHE  *)
(* coprocessor holds; the ledger never reads the cleartext.  A handle is   *)
(* written here as what identifies the ciphertext: the user whose input or *)
(* running total it is, the number of additions that produced it (0 for an *)
(* input), and the cleartext held for it.  The zero handle is the          *)
(* uninitialized euint32 of a storage slot never written.                  *)
(***************************************************************************)
ZeroHandle == [user |-> "none", n |-> 0, val |-> Zero32]
InputHandle(user, value) == [user |-> user, n |-> 0, val |-> value]
TrivialEncrypt(value) == [user |-> "trivial", n |-> 0, val |-> value]
IsInitialized(h) == h # ZeroHandle

\* FHE.fromExternal: the proof attests a handle for one user; it validates
\* only for that handle sent by that user
ProofValidates(scoreExt, inputProof, sender) ==
  /\ inputProof.handle = scoreExt
  /\ inputProof.user = sender

\* FHE.add(a, b): an uninitialized operand stands for an encrypted zero; the
\* result is a new ciphertext of the sum modulo 2^32
FHEAdd(a, b) ==
  LET x == IF IsInitialized(a) THEN a ELSE TrivialEncrypt(Zero32)
      y == IF IsInitialized(b) THEN b ELSE TrivialEncrypt(Zero32)
  IN  [user |-> IF x.user = "trivial" THEN y.user ELSE x.user,
       n |-> x.n + y.n + 1,
       val |-> Add32(x.val, y.val)]

\* what a holder of the decryption right obtains for a handle
Cleartext(h) == h.val

(***************************************************************************)
(* Storage of the contract, the event log, the access-control list of the  *)
(* FHE library, the chain's clock, and the outcome of the latest call.     *)
(***************************************************************************)
VARIABLES
  nextResultId,                 \* uint256 public nextResultId
  encryptedTotalScoreByPlayer,  \* mapping(address => euint32)
  encryptedScoreByResultId,     \* mapping(uint256 => euint32), ids 1..nextResultId-1
  playerStats,                  \* mapping(address => PlayerStats)
  badgeClaimed,                 \* mapping(uint256 => mapping(address => bool))
  events,                       \* the contract's event log, oldest first
  acl,                          \* <<handle, address>> pairs allowed to decrypt
  blockTimestamp,               \* block.timestamp
  lastCall,                     \* receipt of the latest call, until its caller reads it
  accepted                      \* history: the accepted submitResult calls

ledgerVars ==
  <<nextResultId, encryptedTotalScoreByPlayer, encryptedScoreByResultId,
    playerStats, badgeClaimed, events, acl>>

(***************************************************************************)
(* The client: one mounted useGeoChain hook (web3/hooks/useGeoChain.ts)    *)
(***************************************************************************)
VARIABLES
  chainId,            \* parameters.chainId
  ethersSigner,       \* parameters.ethersSigner, by its address
  instance,           \* parameters.instance: the FHEVM instance is loaded
  message,            \* useState: the latest status line
  handle,             \* useState: the total's handle as read, or undefined
  clear,              \* useState: the decrypted total, or undefined
  lastTxHash,         \* useState: hash of the latest transaction sent
  isRefreshingRef,    \* useRef(false)
  isDecryptingRef,    \* useRef(false)
  isSubmittingRef,    \* useRef(false)
  initRefreshKeyRef,  \* useRef(""): key of the latest refresh on (re)render
  lastRefreshKeyRef,  \* useRef(""): key of the latest refresh not skipped
  lastRefreshAtRef,   \* useRef(0): Date.now() of that refresh
  dateNow,            \* Date.now(), in ms since the hook was mounted
  reads,              \* getEncryptedTotalScore reads awaiting their reply
  decrypts,           \* decryptEncryptedTotal calls suspended at an await
  submits,            \* submitCore calls suspended at an await
  handleDecrypts,     \* decryptHandle calls suspended at an await
  numCalls,           \* history: how many calls of the three operations were made
  numTx,              \* history: how many transactions the client sent
  ended,              \* history: the calls that ended in the latest step
  readAt              \* history: the key of the last ledger read of a total,
                      \* per account when its total was last read, and
                      \* whether a page or a returning submit issued it

contextVars == <<chainId, ethersSigner, instance>>

coordVars ==
  <<chainId, ethersSigner, instance, message, handle, clear, lastTxHash,
    isRefreshingRef, isDecryptingRef, isSubmittingRef, initRefreshKeyRef,
    lastRefreshKeyRef, lastRefreshAtRef, dateNow, reads, decrypts, submits,
    handleDecrypts,
    numCalls, numTx, ended, readAt>>

vars ==
  <<nextResultId, encryptedTotalScoreByPlayer, encryptedScoreByResultId,
    playerStats, badgeClaimed, events, acl, blockTimestamp, lastCall, accepted,
    chainId, ethersSigner, instance, message, handle, clear, lastTxHash,
    isRefreshingRef, isDecryptingRef, isSubmittingRef, initRefreshKeyRef,
    lastRefreshKeyRef, lastRefreshAtRef, dateNow, reads, decrypts, submits,
    handleDecrypts,
    numCalls, numTx, ended, readAt>>

\* an optional value: undefined, or the value
Undefined == <<>>
Defined(x) == <<x>>

\* the chains of the wallet: GeoChainAddresses has an entry for the first only
HomeChain == "home"
Chains == {HomeChain, "other"}
NoSigner == "none"
NoKey == <<>>
Never == -1

\* the hook as first rendered, before a wallet is connected: every useState
\* and useRef at its initial value, nothing in flight
Mounted ==
  /\ chainId = HomeChain
  /\ ethersSigner = NoSigner
  /\ instance = FALSE
  /\ message = ""
  /\ handle = Undefined
  /\ clear = Undefined
  /\ lastTxHash = Undefined
  /\ isRefreshingRef = FALSE
  /\ isDecryptingRef = FALSE
  /\ isSubmittingRef = FALSE
  /\ initRefreshKeyRef = NoKey
  /\ lastRefreshKeyRef = NoKey
  /\ lastRefreshAtRef = 0
  /\ dateNow = 0
  /\ reads = {}
  /\ decrypts = {}
  /\ submits = {}
  /\ handleDecrypts = {}
  /\ numCalls = 0
  /\ numTx = 0
  /\ ended = {}
  /\ readAt = [last |-> NoKey, at |-> [p \in Participants |-> Never],
               by |-> "page"]

ZeroStats ==
  [numGames |-> 0, totalPublicScore |-> 0, maxSinglePublicScore |-> 0,
   lastPlayedAt |-> 0]

NoCall ==
  [op |-> "none", sender |-> "none", badgeId |-> 0, status |-> "none",
   ret |-> 0]

CallRecord(op, sender, badgeId, status, ret) ==
  [op |-> op, sender |-> sender, badgeId |-> badgeId, status |-> status,
   ret |-> ret]

(***************************************************************************)
(* submitResult                                                            *)
(***************************************************************************)
\* (variant: the score stored in place of the sum)
NewTotal_Overwrites(currentTotal, score) == score

\* (variant: the addition is dropped and the stored total written back)
NewTotal_KeepsCurrent(currentTotal, score) == currentTotal

\* newTotal = FHE.add(currentTotal, score)
NewTotal(currentTotal, score) == FHEAdd(currentTotal, score)

\* (variant: ++nextResultId, the id taken after the increment)
MintedResultId_PreIncrement(counter) == counter + 1

\* (variant: the id of the first result is handed out again and again)
MintedResultId_AlwaysFirst(counter) == 1

\* resultId = nextResultId++ : the id returned, and the counter afterwards
MintedResultId(counter) == counter
CounterAfterMint(counter) == counter + 1

\* (variant: a game with no public score is not counted)
UpdatedStats_SkipsPrivate(s, scorePublic, ts) ==
  [numGames |-> s.numGames + (IF scorePublic > 0 THEN 1 ELSE 0),
   totalPublicScore |-> s.totalPublicScore + scorePublic,
   maxSinglePublicScore |->
     IF scorePublic > s.maxSinglePublicScore THEN scorePublic
     ELSE s.maxSinglePublicScore,
   lastPlayedAt |-> ts]

\* (variant: the maximum overwritten without the comparison)
UpdatedStats_NoCompare(s, scorePublic, ts) ==
  [numGames |-> s.numGames + 1,
   totalPublicScore |-> s.totalPublicScore + scorePublic,
   maxSinglePublicScore |-> scorePublic,
   lastPlayedAt |-> ts]

\* the unchecked block: uint256 fields, far from wrapping
UpdatedStats(s, scorePublic, ts) ==
  [numGames |-> s.numGames + 1,
   totalPublicScore |-> s.totalPublicScore + scorePublic,
   maxSinglePublicScore |->
     IF scorePublic > s.maxSinglePublicScore THEN scorePublic
     ELSE s.maxSinglePublicScore,
   lastPlayedAt |-> ts]

\* (variant: the score of a result is readable by every participant)
Granted_ScorePublic(newTotal, score, sender) ==
  {<<newTotal, LedgerAddress>>, <<newTotal, sender>>, <<score, LedgerAddress>>}
    \cup {<<score, p>> : p \in Participants}

\* FHE.allowThis / FHE.allow on the new total and on the score
Granted(newTotal, score, sender) ==
  {<<newTotal, LedgerAddress>>, <<newTotal, sender>>,
   <<score, LedgerAddress>>, <<score, sender>>}

\* (variant: the event carries the caller's running public total)
ResultSubmitted_RunningTotal(id, player, resultHash, resultCID, scorePublic, ts) ==
  [name |-> "ResultSubmitted", id |-> id, player |-> player,
   resultHash |-> resultHash, resultCID |-> resultCID,
   scorePublic |-> playerStats[player].totalPublicScore + scorePublic,
   timestamp |-> ts]

\* emit ResultSubmitted(resultId, msg.sender, resultHash, resultCID,
\*                      uint256(scorePublic), block.timestamp)
ResultSubmitted(id, player, resultHash, resultCID, scorePublic, ts) ==
  [name |-> "ResultSubmitted", id |-> id, player |-> player,
   resultHash |-> resultHash, resultCID |-> resultCID,
   scorePublic |-> scorePublic, timestamp |-> ts]

\* the ledger as one record, and the ledger an accepted submitResult leaves
Ledger ==
  [nextResultId |-> nextResultId,
   encryptedTotalScoreByPlayer |-> encryptedTotalScoreByPlayer,
   encryptedScoreByResultId |-> encryptedScoreByResultId,
   playerStats |-> playerStats,
   badgeClaimed |-> badgeClaimed,
   events |-> events,
   acl |-> acl,
   accepted |-> accepted]

SubmitEffect(L, sender, score, resultHash, resultCID, scorePublic, ts) ==
  LET currentTotal == L.encryptedTotalScoreByPlayer[sender]
      newTotal == NewTotal(currentTotal, score)
      resultId == MintedResultId(L.nextResultId)
  IN  [nextResultId |-> CounterAfterMint(L.nextResultId),
       encryptedTotalScoreByPlayer |->
         [L.encryptedTotalScoreByPlayer EXCEPT ![sender] = newTotal],
       encryptedScoreByResultId |->
         [id \in DOMAIN L.encryptedScoreByResultId \cup {resultId} |->
            IF id = resultId THEN score ELSE L.encryptedScoreByResultId[id]],
       playerStats |->
         [L.playerStats EXCEPT
            ![sender] = UpdatedStats(L.playerStats[sender], scorePublic, ts)],
       badgeClaimed |-> L.badgeClaimed,
       events |->
         Append(L.events,
                ResultSubmitted(resultId, sender, resultHash, resultCID,
                                scorePublic, ts)),
       acl |-> L.acl \cup Granted(newTotal, score, sender),
       accepted |->
         Append(L.accepted,
                [player |-> sender, score |-> Cleartext(score),
                 scorePublic |-> scorePublic, id |-> resultId, at |-> ts])]

\* (variant: the id minted before the failing check is not rolled back)
Rollback_KeepsMint ==
  /\ nextResultId' = nextResultId + 1
  /\ UNCHANGED <<encryptedTotalScoreByPlayer, encryptedScoreByResultId,
                 playerStats, badgeClaimed, events, acl>>

\* a revert rolls the transaction back: storage and log as before the call
Rollback == UNCHANGED ledgerVars

Revert(op, sender, badgeId, reason) ==
  /\ Rollback
  /\ UNCHANGED <<blockTimestamp, accepted>>
  /\ lastCall' = CallRecord(op, sender, badgeId, reason, 0)

SubmitResult(sender, scoreExt, inputProof, resultHash, resultCID, scorePublic) ==
  IF ~ProofValidates(scoreExt, inputProof, sender)
  THEN Revert("submitResult", sender, 0, "ProofInvalid")
  ELSE LET L == SubmitEffect(Ledger, sender, scoreExt, resultHash, resultCID,
                             scorePublic, blockTimestamp)
       IN  /\ nextResultId' = L.nextResultId
           /\ encryptedTotalScoreByPlayer' = L.encryptedTotalScoreByPlayer
           /\ encryptedScoreByResultId' = L.encryptedScoreByResultId
           /\ playerStats' = L.playerStats
           /\ badgeClaimed' = L.badgeClaimed
           /\ events' = L.events
           /\ acl' = L.acl
           /\ accepted' = L.accepted
           /\ lastCall' = CallRecord("submitResult", sender, 0, "ok",
                                     L.accepted[Len(L.accepted)].id)
           /\ UNCHANGED blockTimestamp

(***************************************************************************)
(* Views                                                                   *)
(***************************************************************************)
GetEncryptedTotalScore(player) == encryptedTotalScoreByPlayer[player]

GetEncryptedResultScore(id) ==
  IF id \in DOMAIN encryptedScoreByResultId THEN encryptedScoreByResultId[id]
  ELSE ZeroHandle

GetPlayerStats(player) == playerStats[player]

(***************************************************************************)
(* claimBadge                                                              *)
(***************************************************************************)
\* (variant: badge 4 with > in place of >=)
BadgeOk_ActiveStrict(badgeId, s, ts) ==
  IF badgeId = 1 THEN s.numGames >= MinGamesFirstTry
  ELSE IF badgeId = 2 THEN s.totalPublicScore >= MinTotalScore
  ELSE IF badgeId = 3 THEN s.maxSinglePublicScore >= MinHighScore
  ELSE IF badgeId = 4
    THEN s.numGames >= MinGamesActive /\ s.lastPlayedAt + SevenDays > ts
  ELSE IF badgeId = 5 THEN s.lastPlayedAt + OneDay >= ts
  ELSE IF badgeId = 6 THEN s.numGames >= MinGamesVeteran
  ELSE FALSE

\* (variant: badge 6 with > in place of >=)
BadgeOk_VeteranStrict(badgeId, s, ts) ==
  IF badgeId = 1 THEN s.numGames >= MinGamesFirstTry
  ELSE IF badgeId = 2 THEN s.totalPublicScore >= MinTotalScore
  ELSE IF badgeId = 3 THEN s.maxSinglePublicScore >= MinHighScore
  ELSE IF badgeId = 4
    THEN s.numGames >= MinGamesActive /\ s.lastPlayedAt + SevenDays >= ts
  ELSE IF badgeId = 5 THEN s.lastPlayedAt + OneDay >= ts
  ELSE IF badgeId = 6 THEN s.numGames > MinGamesVeteran
  ELSE FALSE

\* (variant: badge 1 with >= 0 in place of >= 1)
BadgeOk_FirstTryFree(badgeId, s, ts) ==
  IF badgeId = 1 THEN s.numGames >= 0
  ELSE IF badgeId = 2 THEN s.totalPublicScore >= MinTotalScore
  ELSE IF badgeId = 3 THEN s.maxSinglePublicScore >= MinHighScore
  ELSE IF badgeId = 4
    THEN s.numGames >= MinGamesActive /\ s.lastPlayedAt + SevenDays >= ts
  ELSE IF badgeId = 5 THEN s.lastPlayedAt + OneDay >= ts
  ELSE IF badgeId = 6 THEN s.numGames >= MinGamesVeteran
  ELSE FALSE

\* the if-chain of claimBadge for the ids it knows
BadgeOk(badgeId, s, ts) ==
  IF badgeId = 1 THEN s.numGames >= MinGamesFirstTry
  ELSE IF badgeId = 2 THEN s.totalPublicScore >= MinTotalScore
  ELSE IF badgeId = 3 THEN s.maxSinglePublicScore >= MinHighScore
  ELSE IF badgeId = 4
    THEN s.numGames >= MinGamesActive /\ s.lastPlayedAt + SevenDays >= ts
  ELSE IF badgeId = 5 THEN s.lastPlayedAt + OneDay >= ts
  ELSE IF badgeId = 6 THEN s.numGames >= MinGamesVeteran
  ELSE FALSE

\* (variant: the claimed flag looked at after the conditions)
ClaimOutcome_ConditionsFirst(badgeId, claimed, s, ts) ==
  IF badgeId \notin KnownBadgeIds THEN "UnknownBadge"
  ELSE IF ~BadgeOk(badgeId, s, ts) THEN "ConditionsNotMet"
  ELSE IF claimed THEN "AlreadyClaimed"
  ELSE "ok"

\* (variant: the claimed flag not looked at)
ClaimOutcome_NoClaimedCheck(badgeId, claimed, s, ts) ==
  IF badgeId \notin KnownBadgeIds THEN "UnknownBadge"
  ELSE IF ~BadgeOk(badgeId, s, ts) THEN "ConditionsNotMet"
  ELSE "ok"

\* (variant: no revert in the final else, ok stays false)
ClaimOutcome_NoUnknownRevert(badgeId, claimed, s, ts) ==
  IF claimed THEN "AlreadyClaimed"
  ELSE IF ~BadgeOk(badgeId, s, ts) THEN "ConditionsNotMet"
  ELSE "ok"

\* how a claimBadge call ends: require(!claimed), then the if-chain with its
\* revert for an id it does not know, then require(ok)
ClaimOutcome(badgeId, claimed, s, ts) ==
  IF claimed THEN "AlreadyClaimed"
  ELSE IF badgeId \notin KnownBadgeIds THEN "UnknownBadge"
  ELSE IF ~BadgeOk(badgeId, s, ts) THEN "ConditionsNotMet"
  ELSE "ok"

BadgeClaimedEvent(player, badgeId, ts) ==
  [name |-> "BadgeClaimed", player |-> player, badgeId |-> badgeId,
   timestamp |-> ts]

ClaimBadge(sender, badgeId) ==
  LET outcome == ClaimOutcome(badgeId, badgeClaimed[badgeId][sender],
                              playerStats[sender], blockTimestamp)
  IN  IF outcome # "ok"
      THEN Revert("claimBadge", sender, badgeId, outcome)
      ELSE /\ badgeClaimed' = [badgeClaimed EXCEPT ![badgeId][sender] = TRUE]
           /\ events' = Append(events,
                               BadgeClaimedEvent(sender, badgeId, blockTimestamp))
           /\ lastCall' = CallRecord("claimBadge", sender, badgeId, "ok", 0)
           /\ UNCHANGED <<nextResultId, encryptedTotalScoreByPlayer,
                          encryptedScoreByResultId, playerStats, acl,
                          blockTimestamp, accepted>>

(***************************************************************************)
(* updateQuestionPool: open to every caller, only emits an event           *)
(***************************************************************************)
QuestionPoolUpdated(poolCID, version) ==
  [name |-> "QuestionPoolUpdated", poolCID |-> poolCID, version |-> version]

UpdateQuestionPool(poolCID, version) ==
  /\ events' = Append(events, QuestionPoolUpdated(poolCID, version))
  /\ lastCall' = CallRecord("updateQuestionPool", "any", 0, "ok", 0)
  /\ UNCHANGED <<nextResultId, encryptedTotalScoreByPlayer,
                 encryptedScoreByResultId, playerStats, badgeClaimed, acl,
                 blockTimestamp, accepted>>

(***************************************************************************)
(* The chain's clock: a later block carries a later timestamp              *)
(***************************************************************************)
AdvanceTime(t) ==
  /\ t > blockTimestamp
  /\ blockTimestamp' = t
  /\ UNCHANGED <<ledgerVars, lastCall, accepted>>

(***************************************************************************)
(* The caller of a transaction waits for its receipt (tx.wait())           *)
(***************************************************************************)
ReadReceipt ==
  /\ lastCall # NoCall
  /\ lastCall' = NoCall
  /\ UNCHANGED <<ledgerVars, blockTimestamp, accepted>>

(***************************************************************************)
(* Inputs explored                                                         *)
(***************************************************************************)
\* (encrypted score, public score) pairs; 2^32 - 7 = 65535 * 65536 + 65529
Inputs ==
  {[score |-> U32(0, 5), scorePublic |-> 5],
   [score |-> U32(0, 7), scorePublic |-> 7],
   [score |-> U32(LimbBase - 1, LimbBase - 7), scorePublic |-> 0]}
\* the veteran's earlier results, one public point each, and the results
\* explored after them: one more point, or a high score
VeteranInput == [score |-> U32(0, 5), scorePublic |-> 1]
VeteranInputs == {VeteranInput, [score |-> U32(0, 5), scorePublic |-> 20]}
\* from the constructed ledger: one badge of the table and one unknown id
EarlyBadgeIds == {1, 7}
ResultHashes == {"0xhash"}
ResultCIDs == {"cid"}
PoolCIDs == {"poolCID"}
PoolVersions == {1}

(***************************************************************************)
(* The ledger after construction, and its steps                            *)
(***************************************************************************)
Constructed ==
  [nextResultId |-> FirstResultId,
   encryptedTotalScoreByPlayer |-> [p \in Participants |-> ZeroHandle],
   encryptedScoreByResultId |-> <<>>,
   playerStats |-> [p \in Participants |-> ZeroStats],
   badgeClaimed |-> [b \in BadgeIds |-> [p \in Participants |-> FALSE]],
   events |-> <<>>,
   acl |-> {},
   accepted |-> <<>>]

StartsAs(L) ==
  /\ nextResultId = L.nextResultId
  /\ encryptedTotalScoreByPlayer = L.encryptedTotalScoreByPlayer
  /\ encryptedScoreByResultId = L.encryptedScoreByResultId
  /\ playerStats = L.playerStats
  /\ badgeClaimed = L.badgeClaimed
  /\ events = L.events
  /\ acl = L.acl
  /\ accepted = L.accepted
  /\ blockTimestamp = StartTime
  /\ lastCall = NoCall

\* a constructed ledger; no wallet is connected to the client
Init == StartsAs(Constructed) /\ Mounted

\* the calls and clock steps explored, one transaction at a time (the next
\* one is taken up when the receipt of the latest has been read): accepted
\* calls while the log is shorter than eventCap, rejected calls always
Step(eventCap, inputs, badgeIds, times) ==
  \/ ReadReceipt /\ UNCHANGED coordVars
  \/ \E sender \in Participants, in \in inputs, prover \in Participants,
        resultHash \in ResultHashes, resultCID \in ResultCIDs :
       /\ lastCall = NoCall
       /\ Len(events) < eventCap \/ prover # sender
       /\ SubmitResult(sender, InputHandle(sender, in.score),
                       [handle |-> InputHandle(sender, in.score), user |-> prover],
                       resultHash, resultCID, in.scorePublic)
       /\ UNCHANGED coordVars
  \/ \E sender \in Participants, badgeId \in badgeIds :
       /\ lastCall = NoCall
       /\ \/ Len(events) < eventCap
          \/ ClaimOutcome(badgeId, badgeClaimed[badgeId][sender],
                          playerStats[sender], blockTimestamp) # "ok"
       /\ ClaimBadge(sender, badgeId)
       /\ UNCHANGED coordVars
  \/ \E poolCID \in PoolCIDs, version \in PoolVersions :
       /\ lastCall = NoCall
       /\ Len(events) < eventCap
       /\ UpdateQuestionPool(poolCID, version)
       /\ UNCHANGED coordVars
  \/ \E t \in times : lastCall = NoCall /\ AdvanceTime(t) /\ UNCHANGED coordVars

Next == Step(MaxEvents, Inputs, EarlyBadgeIds, EarlyTimePoints)

Spec == Init /\ [][Next]_vars

(***************************************************************************)
(* The same ledger, started after one player's first VeteranGames results  *)
(* (all submitted in the first block), so that the ten-game badge is in    *)
(* reach; every badge id and every timestamp is explored from there.       *)
(***************************************************************************)
RECURSIVE AfterGames(_)
AfterGames(n) ==
  IF n = 0 THEN Constructed
  ELSE SubmitEffect(AfterGames(n - 1), "alice",
                    InputHandle("alice", VeteranInput.score), "0xhash", "cid",
                    VeteranInput.scorePublic, StartTime)

InitVeteran == StartsAs(AfterGames(VeteranGames)) /\ Mounted

NextVeteran ==
  Step(VeteranGames + MaxVeteranEvents, VeteranInputs, BadgeIds, TimePoints)

SpecVeteran == InitVeteran /\ [][NextVeteran]_vars

(***************************************************************************)
(* The client's operations (web3/hooks/useGeoChain.ts).  A call runs up to *)
(* its first await in one step; each continuation after an await is a step *)
(* of its own, and the wallet may change between any two steps.            *)
(***************************************************************************)
ThrottleMs == 2000
PollMs == 100
DecryptWaitMs == 10000

NoAddress == "none"

\* contract.address: the GeoChainAddresses entry of the chain, if any
ContractAddress(chain) == IF chain = HomeChain THEN LedgerAddress ELSE NoAddress

\* the read provider comes with the connected wallet
ReadonlyProvider(signer) == signer # NoSigner

\* sameChain.current, sameSigner.current: compare with the wallet as it is now
SameChain(chain) == chain = chainId
SameSigner(signer) == signer = ethersSigner

\* what the callbacks of a render close over
ClosureOf(chain, signer, inst, str) ==
  [chainId |-> chain,
   address |-> ContractAddress(chain),
   signer |-> signer,
   provider |-> ReadonlyProvider(signer),
   instance |-> inst,
   handle |-> str]

Closure == ClosureOf(chainId, ethersSigner, instance, handle)

\* the handle as the string kept in the hook's state, and back
HandleStr(value) == [hex |-> value]
FromHandleStr(str) == str.hex
\* /^0x0+$/i.test(handleStr)
IsZeroStr(str) == FromHandleStr(str) = ZeroHandle

RefreshKey(address, signer) == <<address, signer>>

\* at most MaxPending calls of one operation are suspended at a time; a call
\* that suspends takes the first free place
MaxPending == 2
Places == 1..MaxPending
HasPlace(pending) == \E i \in Places : \A c \in pending : c.id # i
FreePlace(pending) ==
  IF HasPlace(pending)
  THEN CHOOSE i \in Places :
         /\ \A c \in pending : c.id # i
         /\ \A j \in Places : j < i => \E c \in pending : c.id = j
  ELSE 0

\* how a call ended; ctx: the closure it was made with; did: the outside
\* calls it made; waited: it ended right after a wait for a refresh
Outcome(kind, ctx, status, did) ==
  [kind |-> kind, ctx |-> ctx, status |-> status, did |-> did,
   waited |-> FALSE]

\* the history is read after every step in which a call ended
NoteOutcome ==
  /\ ended # {}
  /\ ended' = {}
  /\ UNCHANGED <<contextVars, handleDecrypts, message, handle, clear, lastTxHash,
                 isRefreshingRef, isDecryptingRef, isSubmittingRef,
                 initRefreshKeyRef, lastRefreshKeyRef, lastRefreshAtRef,
                 dateNow, reads, decrypts, submits, numCalls, numTx,
                 readAt>>
  /\ UNCHANGED <<ledgerVars, blockTimestamp, lastCall, accepted>>

(***************************************************************************)
(* refreshEncryptedTotal                                                   *)
(***************************************************************************)
\* the part of the state a refresh call touches before its read
RefreshState ==
  [message |-> message, handle |-> handle,
   isRefreshingRef |-> isRefreshingRef,
   lastRefreshKeyRef |-> lastRefreshKeyRef,
   lastRefreshAtRef |-> lastRefreshAtRef,
   reads |-> reads, numCalls |-> numCalls, ended |-> ended,
   readAt |-> readAt]

SetRefreshState(H) ==
  /\ message' = H.message
  /\ handle' = H.handle
  /\ isRefreshingRef' = H.isRefreshingRef
  /\ lastRefreshKeyRef' = H.lastRefreshKeyRef
  /\ lastRefreshAtRef' = H.lastRefreshAtRef
  /\ reads' = H.reads
  /\ numCalls' = H.numCalls
  /\ ended' = H.ended
  /\ readAt' = H.readAt

\* (variant: the refreshing flag is not looked at)
RefreshBusy_Ignored(flag) == FALSE

\* if (isRefreshingRef.current) return;
RefreshBusy(flag) == flag

\* (variant: the contract address is not looked at)
RefreshReady_NoAddress(ctx) == ctx.provider /\ ctx.signer # NoSigner

\* !(!contract?.address || !ethersReadonlyProvider || !ethersSigner)
RefreshReady(ctx) ==
  ctx.address # NoAddress /\ ctx.provider /\ ctx.signer # NoSigner

\* (variant: no throttle)
Throttled_Never(lastKey, lastAt, key, at) == FALSE

\* lastRefreshKeyRef.current === key && now - lastRefreshAtRef.current < 2000
Throttled(lastKey, lastAt, key, at) == lastKey = key /\ at - lastAt < ThrottleMs

\* the synchronous part of refreshEncryptedTotal, called with closure ctx on
\* the state H: the state it leaves
RefreshCalled(H, ctx) ==
  LET key == RefreshKey(ctx.address, ctx.signer)
      G == [H EXCEPT !.numCalls = @ + 1]
      end(status) == G.ended \cup {Outcome("refresh", ctx, status, {})}
  IN  IF RefreshBusy(H.isRefreshingRef)
      THEN [G EXCEPT !.ended = end("AlreadyInProgress")]
      ELSE IF ~RefreshReady(ctx)
      THEN [G EXCEPT !.handle = Undefined,
                     !.message = "incomplete",
                     !.ended = end("NotReady")]
      ELSE IF Throttled(H.lastRefreshKeyRef, H.lastRefreshAtRef, key, dateNow)
      THEN [G EXCEPT !.ended = end("Throttled")]
      ELSE [G EXCEPT !.isRefreshingRef = TRUE,
                     !.lastRefreshKeyRef = key,
                     !.lastRefreshAtRef = dateNow,
                     !.reads = @ \cup {[id |-> FreePlace(H.reads), ctx |-> ctx]},
                     !.readAt = [last |-> key,
                                 at |-> [@.at EXCEPT ![ctx.signer] = dateNow],
                                 by |-> "page"]]

\* the refresh button, or a page's effect
RefreshEncryptedTotal ==
  /\ HasPlace(reads)
  /\ SetRefreshState(RefreshCalled(RefreshState, Closure))
  /\ UNCHANGED <<contextVars, handleDecrypts, clear, lastTxHash, isDecryptingRef,
                 isSubmittingRef, initRefreshKeyRef, dateNow, decrypts, submits,
                 numTx>>
  /\ UNCHANGED <<ledgerVars, blockTimestamp, lastCall, accepted>>

\* (variant: a reply that brings the handle already stored is dropped)
RefreshStillCurrent_OnlyNewHandle(ctx) ==
  /\ SameChain(ctx.chainId) /\ ctx.address = ContractAddress(chainId)
  /\ Defined(HandleStr(GetEncryptedTotalScore(ctx.signer))) # handle

\* sameChain.current(thisChainId) && thisAddress === geoRef.current?.address
RefreshStillCurrent(ctx) ==
  SameChain(ctx.chainId) /\ ctx.address = ContractAddress(chainId)

\* the read's reply: .then, .finally
RefreshReplied(r) ==
  LET value == GetEncryptedTotalScore(r.ctx.signer)
      handleStr == HandleStr(value)
  IN  /\ r \in reads
      /\ reads' = reads \ {r}
      /\ IF RefreshStillCurrent(r.ctx)
         THEN /\ handle' = Defined(handleStr)
              /\ clear' = Undefined
              /\ message' = IF IsZeroStr(handleStr) THEN "noCiphertextYet"
                            ELSE "refreshed"
              /\ ended' = {Outcome("refresh", r.ctx, "ok", {"read"})}
         ELSE /\ UNCHANGED <<handle, clear, message>>
              /\ ended' = {Outcome("refresh", r.ctx, "Ignored", {"read"})}
      /\ isRefreshingRef' = FALSE
      /\ UNCHANGED <<contextVars, handleDecrypts, lastTxHash, isDecryptingRef, isSubmittingRef,
                     initRefreshKeyRef, lastRefreshKeyRef, lastRefreshAtRef,
                     dateNow, decrypts, submits, numCalls, numTx,
                     readAt>>
      /\ UNCHANGED <<ledgerVars, blockTimestamp, lastCall, accepted>>

\* the read fails: .catch, .finally
RefreshFailed(r) ==
  /\ r \in reads
  /\ reads' = reads \ {r}
  /\ message' = "refreshFailed"
  /\ ended' = {Outcome("refresh", r.ctx, "Failed", {"read"})}
  /\ isRefreshingRef' = FALSE
  /\ UNCHANGED <<contextVars, handleDecrypts, handle, clear, lastTxHash, isDecryptingRef,
                 isSubmittingRef, initRefreshKeyRef, lastRefreshKeyRef,
                 lastRefreshAtRef, dateNow, decrypts, submits, numCalls,
                 numTx, readAt>>
  /\ UNCHANGED <<ledgerVars, blockTimestamp, lastCall, accepted>>

\* the wallet changes and the hook renders again; its effect refreshes once
\* for a key it has not refreshed for last
Rendered(chain, signer, inst) ==
  LET ctx == ClosureOf(chain, signer, inst, handle)
      key == RefreshKey(ctx.address, ctx.signer)
      complete == ctx.address # NoAddress /\ ctx.provider /\ signer # NoSigner
      depsChanged ==
        ctx.address # ContractAddress(chainId) \/ signer # ethersSigner
  IN  /\ <<chain, signer, inst>> # <<chainId, ethersSigner, instance>>
      /\ HasPlace(reads)
      /\ chainId' = chain
      /\ ethersSigner' = signer
      /\ instance' = inst
      /\ IF depsChanged /\ complete /\ initRefreshKeyRef # key
         THEN /\ initRefreshKeyRef' = key
              /\ SetRefreshState(RefreshCalled(RefreshState, ctx))
         ELSE UNCHANGED <<initRefreshKeyRef, message, handle, isRefreshingRef,
                          lastRefreshKeyRef, lastRefreshAtRef, reads, numCalls,
                          ended, readAt>>
      /\ UNCHANGED <<clear, lastTxHash, isDecryptingRef, isSubmittingRef,
                     handleDecrypts,
                     dateNow, decrypts, submits, numTx>>
      /\ UNCHANGED <<ledgerVars, blockTimestamp, lastCall, accepted>>

(***************************************************************************)
(* decryptEncryptedTotal                                                   *)
(***************************************************************************)
\* (variant: a zero handle counts as a ciphertext)
HasCiphertext_ZeroToo(str) == str # Undefined

\* !(!handle || /^0x0+$/i.test(handle))
HasCiphertext(str) == str # Undefined /\ ~IsZeroStr(str[1])

\* (variant: the 10 s timer is missing, only the poll ends the wait)
WaitOver_NoTimeout(since, refreshing) ==
  ~refreshing /\ dateNow > since /\ (dateNow - since) % PollMs = 0

\* the poll every 100 ms finds the flag clear, or the 10 s timer fires
WaitOver(since, refreshing) ==
  \/ ~refreshing /\ dateNow > since /\ (dateNow - since) % PollMs = 0
  \/ dateNow - since >= DecryptWaitMs

\* (variant: the decrypting flag is not looked at)
DecryptBusy_Ignored(flag) == FALSE

\* if (isDecryptingRef.current) { ... return; }
DecryptBusy(flag) == flag

\* the part of the state a decrypt call touches before loadOrSign
DecryptState ==
  [message |-> message, isDecryptingRef |-> isDecryptingRef,
   decrypts |-> decrypts, ended |-> ended]

SetDecryptState(D) ==
  /\ message' = D.message
  /\ isDecryptingRef' = D.isDecryptingRef
  /\ decrypts' = D.decrypts
  /\ ended' = D.ended

\* (variant: the signer is not compared)
DecryptIsStale_NoSigner(ctx) ==
  ctx.address # ContractAddress(chainId) \/ ~SameChain(ctx.chainId)

\* thisAddress !== geoRef.current?.address || !sameChain.current(thisChainId)
\*   || !sameSigner.current(thisSigner)
DecryptIsStale(ctx) ==
  \/ ctx.address # ContractAddress(chainId)
  \/ ~SameChain(ctx.chainId)
  \/ ~SameSigner(ctx.signer)

\* the guards after the wait and the start of run(), for the call d (its
\* record: the closure ctx it was made with, and whether it waited), on the
\* state D: the state at its first await (loadOrSign)
DecryptEntered(D, d) ==
  LET ctx == d.ctx
      end(status) ==
        {[Outcome("decrypt", ctx, status, {}) EXCEPT !.waited = d.waited]}
  IN  IF DecryptBusy(D.isDecryptingRef)
      THEN [D EXCEPT !.message = "decryptInProgress",
                     !.ended = end("AlreadyInProgress")]
      ELSE IF ctx.address = NoAddress \/ ~ctx.instance \/ ctx.signer = NoSigner
      THEN [D EXCEPT !.message = "notReady", !.ended = end("NotReady")]
      ELSE IF ~HasCiphertext(ctx.handle)
      THEN [D EXCEPT !.message = "noCiphertext", !.ended = end("NoCiphertext")]
      ELSE [D EXCEPT !.isDecryptingRef = TRUE,
                     !.message = "decryptStarting",
                     !.decrypts = @ \cup {[d EXCEPT !.pc = "loadOrSign",
                                                    !.since = 0,
                                                    !.did = {"loadOrSign"},
                                                    !.busy = FALSE]}]

\* (variant: a submit in flight makes the call wait as well)
WaitsForRefresh_OrSubmit(refreshing) == refreshing \/ isSubmittingRef

\* if (isRefreshingRef.current) { await waitForRefresh }
WaitsForRefresh(refreshing) == refreshing

\* the decrypt button: wait for a refresh in flight, else enter at once
\* (history in the record of a call: waited, it waited for a refresh; busy,
\* a decrypt held the lock when the call was made)
DecryptEncryptedTotal ==
  LET d == [id |-> FreePlace(decrypts), pc |-> "waitForRefresh",
            since |-> dateNow, ctx |-> Closure, did |-> {}, waited |-> FALSE,
            busy |-> isDecryptingRef]
  IN  /\ HasPlace(decrypts)
      /\ numCalls' = numCalls + 1
      /\ IF WaitsForRefresh(isRefreshingRef)
         THEN SetDecryptState(
                [DecryptState EXCEPT !.message = "waitingForRefresh",
                                     !.decrypts = @ \cup {d}])
         ELSE SetDecryptState(DecryptEntered(DecryptState, d))
      /\ UNCHANGED <<contextVars, handleDecrypts, handle, clear, lastTxHash, isRefreshingRef,
                     isSubmittingRef, initRefreshKeyRef, lastRefreshKeyRef,
                     lastRefreshAtRef, dateNow, reads, submits, numTx,
                     readAt>>
      /\ UNCHANGED <<ledgerVars, blockTimestamp, lastCall, accepted>>

\* await waitForRefresh is over: the guards run with the values of the closure
DecryptWaited(d) ==
  /\ d \in decrypts
  /\ d.pc = "waitForRefresh"
  /\ WaitOver(d.since, isRefreshingRef)
  /\ SetDecryptState(
       DecryptEntered([DecryptState EXCEPT !.decrypts = @ \ {d}],
                      [d EXCEPT !.waited = TRUE]))
  /\ UNCHANGED <<contextVars, handleDecrypts, handle, clear, lastTxHash, isRefreshingRef,
                 isSubmittingRef, initRefreshKeyRef, lastRefreshKeyRef,
                 lastRefreshAtRef, dateNow, reads, submits, numCalls, numTx,
                 readAt>>
  /\ UNCHANGED <<ledgerVars, blockTimestamp, lastCall, accepted>>

\* (variant: no finally, the lock stays)
DecryptEnded_KeepsLock(d, status, text) ==
  /\ decrypts' = decrypts \ {d}
  /\ ended' = {Outcome("decrypt", d.ctx, status, d.did)}
  /\ message' = text
  /\ UNCHANGED isDecryptingRef

\* finally { isDecryptingRef.current = false }, with the call's last message
DecryptEnded(d, status, text) ==
  /\ decrypts' = decrypts \ {d}
  /\ ended' = {Outcome("decrypt", d.ctx, status, d.did)}
  /\ message' = text
  /\ isDecryptingRef' = FALSE

\* (variant: a missing signature ends the call without a word)
DecryptSigned_NullSilent(d, sig) ==
  /\ d \in decrypts
  /\ d.pc = "loadOrSign"
  /\ CASE sig = "throws" -> DecryptEnded(d, "Failed", "decryptFailed")
       [] sig = "null" -> DecryptEnded(d, "NoSignature", message)
       [] OTHER ->
            IF DecryptIsStale(d.ctx)
            THEN DecryptEnded(d, "Ignored", "ignoredRequest")
            ELSE /\ decrypts' =
                      (decrypts \ {d})
                        \cup {[d EXCEPT !.pc = "userDecrypt",
                                        !.did = @ \cup {"userDecrypt"}]}
                 /\ message' = "userDecrypt"
                 /\ UNCHANGED <<isDecryptingRef, ended>>
  /\ UNCHANGED <<contextVars, handleDecrypts, handle, clear, lastTxHash, isRefreshingRef,
                 isSubmittingRef, initRefreshKeyRef, lastRefreshKeyRef,
                 lastRefreshAtRef, dateNow, reads, submits, numCalls, numTx,
                 readAt>>
  /\ UNCHANGED <<ledgerVars, blockTimestamp, lastCall, accepted>>

\* loadOrSign returned: a signature (sig = "signature"), nothing (sig =
\* "null"), or it threw (sig = "throws")
DecryptSigned(d, sig) ==
  /\ d \in decrypts
  /\ d.pc = "loadOrSign"
  /\ CASE sig = "throws" -> DecryptEnded(d, "Failed", "decryptFailed")
       [] sig = "null" -> DecryptEnded(d, "NoSignature", "noSignature")
       [] OTHER ->
            IF DecryptIsStale(d.ctx)
            THEN DecryptEnded(d, "Ignored", "ignoredRequest")
            ELSE /\ decrypts' =
                      (decrypts \ {d})
                        \cup {[d EXCEPT !.pc = "userDecrypt",
                                        !.did = @ \cup {"userDecrypt"}]}
                 /\ message' = "userDecrypt"
                 /\ UNCHANGED <<isDecryptingRef, ended>>
  /\ UNCHANGED <<contextVars, handleDecrypts, handle, clear, lastTxHash, isRefreshingRef,
                 isSubmittingRef, initRefreshKeyRef, lastRefreshKeyRef,
                 lastRefreshAtRef, dateNow, reads, submits, numCalls, numTx,
                 readAt>>
  /\ UNCHANGED <<ledgerVars, blockTimestamp, lastCall, accepted>>

\* the decryption service answers only for a handle its user may decrypt
MayDecrypt(str, user, address) ==
  /\ <<FromHandleStr(str), user>> \in acl
  /\ <<FromHandleStr(str), address>> \in acl

\* userDecrypt returned the cleartext, or threw
DecryptReplied(d, threw) ==
  /\ d \in decrypts
  /\ d.pc = "userDecrypt"
  /\ IF threw \/ ~MayDecrypt(d.ctx.handle[1], d.ctx.signer, d.ctx.address)
     THEN DecryptEnded(d, "Failed", "decryptFailed") /\ UNCHANGED clear
     ELSE IF DecryptIsStale(d.ctx)
     THEN DecryptEnded(d, "Ignored", "ignoredResult") /\ UNCHANGED clear
     ELSE /\ DecryptEnded(d, "ok", "decrypted")
          /\ clear' = Defined(Cleartext(FromHandleStr(d.ctx.handle[1])))
  /\ UNCHANGED <<contextVars, handleDecrypts, handle, lastTxHash, isRefreshingRef,
                 isSubmittingRef, initRefreshKeyRef, lastRefreshKeyRef,
                 lastRefreshAtRef, dateNow, reads, submits, numCalls, numTx,
                 readAt>>
  /\ UNCHANGED <<ledgerVars, blockTimestamp, lastCall, accepted>>

(***************************************************************************)
(* submitCore                                                              *)
(***************************************************************************)
\* (variant: only another submit blocks a submit)
SubmitBusy_SubmitOnly(refreshing, submitting) == submitting

\* (variant: only a refresh blocks a submit)
SubmitBusy_RefreshOnly(refreshing, submitting) == refreshing

\* if (isRefreshingRef.current || isSubmittingRef.current) throw
SubmitBusy(refreshing, submitting) == refreshing \/ submitting

\* (variant: the FHEVM instance is not looked at)
SubmitReady_NoInstance(ctx) == ctx.address # NoAddress /\ ctx.signer # NoSigner

\* !(!contract.address || !instance || !ethersSigner)
SubmitReady(ctx) ==
  ctx.address # NoAddress /\ ctx.instance /\ ctx.signer # NoSigner

\* (variant: the staleness check before the transaction always passes)
SubmitIsStale_Never(ctx) == FALSE

\* thisAddress !== geoRef.current?.address || !sameChain.current(thisChainId)
\*   || !sameSigner.current(thisSigner)
SubmitIsStale(ctx) ==
  \/ ctx.address # ContractAddress(chainId)
  \/ ~SameChain(ctx.chainId)
  \/ ~SameSigner(ctx.signer)

\* the payloads explored: a score and its public part
Payloads == {[score |-> U32(0, 5), scorePublic |-> 5]}

\* tx.hash of the n-th transaction sent
TxHash(n) == [tx |-> n]

\* submitResultWith(payload) / submitResult(): the guards, the lock, and
\* run() up to its first await; a guard that fails throws before any setState
SubmitCore(payload) ==
  LET ctx == Closure
  IN  /\ HasPlace(submits)
      /\ numCalls' = numCalls + 1
      /\ IF SubmitBusy(isRefreshingRef, isSubmittingRef)
         THEN /\ ended' = {Outcome("submit", ctx, "AlreadyInProgress", {})}
              /\ UNCHANGED <<isSubmittingRef, message, submits>>
         ELSE IF ~SubmitReady(ctx)
         THEN /\ ended' = {Outcome("submit", ctx, "NotReady", {})}
              /\ UNCHANGED <<isSubmittingRef, message, submits>>
         ELSE /\ isSubmittingRef' = TRUE
              /\ message' = "preparing"
              /\ submits' = submits \cup {[id |-> FreePlace(submits), pc |-> "encrypt",
                                           ctx |-> ctx, payload |-> payload,
                                           did |-> {}]}
              /\ UNCHANGED ended
      /\ UNCHANGED <<contextVars, handleDecrypts, handle, clear, lastTxHash, isRefreshingRef,
                     isDecryptingRef, initRefreshKeyRef, lastRefreshKeyRef,
                     lastRefreshAtRef, dateNow, reads, decrypts, numTx,
                     readAt>>
      /\ UNCHANGED <<ledgerVars, blockTimestamp, lastCall, accepted>>

\* (variant: the lock is released on the way of success only)
SubmitThrew_KeepsLock(s, status, did) ==
  /\ submits' = submits \ {s}
  /\ ended' = {Outcome("submit", s.ctx, status, s.did \cup did)}
  /\ message' = "submitFailed"
  /\ UNCHANGED isSubmittingRef

\* catch { setMessage(...); throw e } finally { isSubmittingRef.current = false }
SubmitThrew(s, status, did) ==
  /\ submits' = submits \ {s}
  /\ ended' = {Outcome("submit", s.ctx, status, s.did \cup did)}
  /\ message' = "submitFailed"
  /\ isSubmittingRef' = FALSE

\* the 50 ms pause is over and input.encrypt() returned, or threw
SubmitEncrypted(s, threw) ==
  /\ s \in submits
  /\ s.pc = "encrypt"
  /\ IF threw
     THEN SubmitThrew(s, "Failed", {"encrypt"})
     ELSE IF SubmitIsStale(s.ctx)
     THEN SubmitThrew(s, "Cancelled", {"encrypt"})
     ELSE /\ submits' =
               (submits \ {s})
                 \cup {[s EXCEPT !.pc = "submitResult",
                                 !.did = @ \cup {"encrypt", "submitResult"}]}
          /\ message' = "sending"
          /\ UNCHANGED <<isSubmittingRef, ended>>
  /\ UNCHANGED <<contextVars, handleDecrypts, handle, clear, lastTxHash, isRefreshingRef,
                 isDecryptingRef, initRefreshKeyRef, lastRefreshKeyRef,
                 lastRefreshAtRef, dateNow, reads, decrypts, numCalls, numTx,
                 readAt>>
  /\ UNCHANGED <<ledgerVars, blockTimestamp, lastCall, accepted>>

\* (variant: the hash is returned as soon as the transaction is sent)
SubmitSent_NoWait(s, threw) ==
  /\ s \in submits
  /\ s.pc = "submitResult"
  /\ IF threw
     THEN SubmitThrew(s, "Failed", {}) /\ UNCHANGED <<lastTxHash, numTx>>
     ELSE /\ submits' = submits \ {s}
          /\ ended' = {Outcome("submit", s.ctx, "ok", s.did)}
          /\ message' = "submitted"
          /\ isSubmittingRef' = FALSE
          /\ numTx' = numTx + 1
          /\ lastTxHash' = Defined(TxHash(numTx + 1))
  /\ UNCHANGED <<contextVars, handleDecrypts, handle, clear, isRefreshingRef,
                 isDecryptingRef, initRefreshKeyRef, lastRefreshKeyRef,
                 lastRefreshAtRef, dateNow, reads, decrypts, numCalls,
                 readAt>>
  /\ UNCHANGED <<ledgerVars, blockTimestamp, lastCall, accepted>>

\* c.submitResult(...) returned the transaction sent, or the wallet refused
SubmitSent(s, threw) ==
  /\ s \in submits
  /\ s.pc = "submitResult"
  /\ IF threw
     THEN SubmitThrew(s, "Failed", {}) /\ UNCHANGED <<lastTxHash, numTx>>
     ELSE /\ submits' = (submits \ {s}) \cup {[s EXCEPT !.pc = "sent"]}
          /\ message' = "waitingConfirmation"
          /\ numTx' = numTx + 1
          /\ lastTxHash' = Defined(TxHash(numTx + 1))
          /\ UNCHANGED <<isSubmittingRef, ended>>
  /\ UNCHANGED <<contextVars, handleDecrypts, handle, clear, isRefreshingRef,
                 isDecryptingRef, initRefreshKeyRef, lastRefreshKeyRef,
                 lastRefreshAtRef, dateNow, reads, decrypts, numCalls,
                 readAt>>
  /\ UNCHANGED <<ledgerVars, blockTimestamp, lastCall, accepted>>

\* the transaction is mined: the ledger runs submitResult for the signer the
\* call was made with, on the input encrypted for that signer
SubmitMined(s) ==
  /\ s \in submits
  /\ s.pc = "sent"
  /\ lastCall = NoCall
  /\ SubmitResult(s.ctx.signer, InputHandle(s.ctx.signer, s.payload.score),
                  [handle |-> InputHandle(s.ctx.signer, s.payload.score),
                   user |-> s.ctx.signer],
                  "0xhash", "cid", s.payload.scorePublic)
  /\ submits' = (submits \ {s}) \cup {[s EXCEPT !.pc = "wait"]}
  /\ UNCHANGED <<contextVars, handleDecrypts, message, handle, clear, lastTxHash,
                 isRefreshingRef, isDecryptingRef, isSubmittingRef,
                 initRefreshKeyRef, lastRefreshKeyRef, lastRefreshAtRef,
                 dateNow, reads, decrypts, numCalls, numTx, ended, readAt>>

\* tx.wait() returned the receipt: the refresh of the closure is called and
\* the hash returned
SubmitConfirmed(s) ==
  /\ s \in submits
  /\ s.pc = "wait"
  /\ HasPlace(reads)
  /\ ReadReceipt
  /\ submits' = submits \ {s}
  /\ isSubmittingRef' = FALSE
  /\ LET R == RefreshCalled([RefreshState EXCEPT
                               !.message = "submitted",
                               !.ended = {Outcome("submit", s.ctx, "ok", s.did)}],
                            s.ctx)
     IN  SetRefreshState(IF R.reads = reads THEN R
                         ELSE [R EXCEPT !.readAt.by = "submit"])
  /\ UNCHANGED <<contextVars, handleDecrypts, clear, lastTxHash, isDecryptingRef,
                 initRefreshKeyRef, dateNow, decrypts, numTx>>

\* tx.wait() threw: the transaction was dropped before it was mined, or the
\* receipt of the mined transaction could not be fetched
SubmitDropped(s) ==
  /\ s \in submits
  /\ s.pc \in {"sent", "wait"}
  /\ SubmitThrew(s, "Failed", {})
  /\ lastCall' = IF s.pc = "wait" THEN NoCall ELSE lastCall
  /\ UNCHANGED <<contextVars, handleDecrypts, handle, clear, lastTxHash, isRefreshingRef,
                 isDecryptingRef, initRefreshKeyRef, lastRefreshKeyRef,
                 lastRefreshAtRef, dateNow, reads, decrypts, numCalls, numTx,
                 readAt>>
  /\ UNCHANGED <<ledgerVars, blockTimestamp, accepted>>

(***************************************************************************)
(* The clock: it does not move past an instant at which a waiting decrypt  *)
(* call has to go on                                                       *)
(***************************************************************************)
Waiting == {d \in decrypts : d.pc = "waitForRefresh"}

\* the instants explored: either side of the throttle window after a refresh
\* at the start, and the instant a decrypt call stops waiting
ClockPoints ==
  {ThrottleMs - PollMs, ThrottleMs}
    \cup {d.since + PollMs : d \in Waiting}
    \cup {d.since + DecryptWaitMs : d \in Waiting}

Tick(t) ==
  /\ t > dateNow
  /\ \A d \in Waiting :
       /\ ~WaitOver(d.since, isRefreshingRef)
       /\ t <= d.since + DecryptWaitMs
  /\ dateNow' = t
  /\ UNCHANGED <<contextVars, handleDecrypts, message, handle, clear, lastTxHash,
                 isRefreshingRef, isDecryptingRef, isSubmittingRef,
                 initRefreshKeyRef, lastRefreshKeyRef, lastRefreshAtRef,
                 reads, decrypts, submits, numCalls, numTx, ended, readAt>>
  /\ UNCHANGED <<ledgerVars, blockTimestamp, lastCall, accepted>>

(***************************************************************************)
(* The client on a ledger that holds one result of alice.  It starts as    *)
(* mounted, or as it is after alice has connected her wallet and the       *)
(* instance and her total's handle have been loaded.  MaxCalls calls and   *)
(* MaxTx transactions are made from there; the history is read before the  *)
(* next step is taken.                                                     *)
(***************************************************************************)
MaxCalls == 3
MaxTx == 1

\* Mounted, then Rendered(HomeChain, "alice", FALSE), Rendered(HomeChain,
\* "alice", TRUE), RefreshReplied and NoteOutcome
Connected ==
  LET key == RefreshKey(LedgerAddress, "alice")
      total == AfterGames(1).encryptedTotalScoreByPlayer["alice"]
  IN  /\ chainId = HomeChain
      /\ ethersSigner = "alice"
      /\ instance = TRUE
      /\ message = "refreshed"
      /\ handle = Defined(HandleStr(total))
      /\ clear = Undefined
      /\ lastTxHash = Undefined
      /\ isRefreshingRef = FALSE
      /\ isDecryptingRef = FALSE
      /\ isSubmittingRef = FALSE
      /\ initRefreshKeyRef = key
      /\ lastRefreshKeyRef = key
      /\ lastRefreshAtRef = 0
      /\ dateNow = 0
      /\ reads = {}
      /\ decrypts = {}
      /\ submits = {}
      /\ handleDecrypts = {}
      /\ numCalls = 0
      /\ numTx = 0
      /\ ended = {}
      /\ readAt = [last |-> RefreshKey(LedgerAddress, "alice"),
                   at |-> [p \in Participants |->
                             IF p = "alice" THEN 0 ELSE Never],
                   by |-> "page"]

InitClient == StartsAs(AfterGames(1)) /\ (Mounted \/ Connected)

\* the wallet events: the wallet leaves for a chain without the ledger, an
\* account connects, the wallet switches to another account, the FHEVM
\* instance gets loaded
WalletSteps ==
  \/ \E chain \in Chains \ {HomeChain} :
       /\ ended = {} /\ numCalls < MaxCalls
       /\ Rendered(chain, ethersSigner, instance)
  \/ \E signer \in Participants :
       /\ ended = {} /\ numCalls < MaxCalls
       /\ Rendered(chainId, signer, instance)
  \/ ended = {} /\ ~instance /\ Rendered(chainId, ethersSigner, TRUE)

RefreshSteps ==
  \/ ended = {} /\ numCalls < MaxCalls /\ RefreshEncryptedTotal
  \/ \E r \in reads : ended = {} /\ RefreshReplied(r)

DecryptSteps ==
  \/ ended = {} /\ numCalls < MaxCalls /\ DecryptEncryptedTotal
  \/ \E d \in decrypts : ended = {} /\ DecryptWaited(d)
  \/ \E d \in decrypts : ended = {} /\ DecryptSigned(d, "signature")
  \/ \E d \in decrypts : ended = {} /\ DecryptReplied(d, FALSE)

SubmitSteps ==
  \/ \E payload \in Payloads :
       ended = {} /\ numCalls < MaxCalls /\ SubmitCore(payload)
  \/ \E s \in submits : ended = {} /\ SubmitEncrypted(s, FALSE)
  \/ \E s \in submits : ended = {} /\ numTx < MaxTx /\ SubmitSent(s, FALSE)
  \/ \E s \in submits : ended = {} /\ SubmitMined(s)
  \/ \E s \in submits : ended = {} /\ numCalls < MaxCalls /\ SubmitConfirmed(s)

NextClient ==
  \/ NoteOutcome
  \/ WalletSteps
  \/ RefreshSteps
  \/ DecryptSteps
  \/ SubmitSteps
  \/ \E t \in ClockPoints : ended = {} /\ Tick(t)

SpecClient == InitClient /\ [][NextClient]_vars

(***************************************************************************)
(* The connected client when outside calls may fail: the ledger read, the  *)
(* signature request, the decryption request, the encryption, the sending  *)
(* of the transaction and its confirmation each return or throw; the       *)
(* wallet may switch accounts.  cap calls are made; a submit in flight     *)
(* keeps one of them for the refresh it calls when it is confirmed.        *)
(***************************************************************************)
CallsLeft(cap) == cap - numCalls - Cardinality(submits)

\* a submit called now passes its guards
SubmitEnters ==
  ~SubmitBusy(isRefreshingRef, isSubmittingRef) /\ SubmitReady(Closure)

InitFailing == StartsAs(AfterGames(1)) /\ Connected

\* the calls the pages make, and the wallet's switch of account
Calls(cap) ==
  \/ \E signer \in Participants :
       /\ ended = {} /\ CallsLeft(cap) > 0
       /\ Rendered(chainId, signer, instance)
  \/ ended = {} /\ CallsLeft(cap) > 0 /\ RefreshEncryptedTotal
  \/ ended = {} /\ CallsLeft(cap) > 0 /\ DecryptEncryptedTotal
  \/ \E payload \in Payloads :
       /\ ended = {}
       /\ CallsLeft(cap) > (IF SubmitEnters THEN 1 ELSE 0)
       /\ SubmitCore(payload)

\* what happens without the user: an outside call returns or throws, a timer
\* fires, the page reads how a call ended
Completions ==
  \/ NoteOutcome
  \/ \E r \in reads : ended = {} /\ RefreshReplied(r)
  \/ \E r \in reads : ended = {} /\ RefreshFailed(r)
  \/ \E d \in decrypts : ended = {} /\ DecryptWaited(d)
  \/ \E d \in decrypts, sig \in {"signature", "null", "throws"} :
       ended = {} /\ DecryptSigned(d, sig)
  \/ \E d \in decrypts, threw \in BOOLEAN :
       ended = {} /\ DecryptReplied(d, threw)
  \/ \E s \in submits, threw \in BOOLEAN :
       ended = {} /\ SubmitEncrypted(s, threw)
  \/ \E s \in submits : ended = {} /\ numTx < MaxTx /\ SubmitSent(s, FALSE)
  \/ \E s \in submits : ended = {} /\ SubmitSent(s, TRUE)
  \/ \E s \in submits : ended = {} /\ SubmitMined(s)
  \/ \E s \in submits : ended = {} /\ SubmitConfirmed(s)
  \/ \E s \in submits : ended = {} /\ SubmitDropped(s)
  \/ \E t \in ClockPoints : ended = {} /\ Tick(t)

NextFailing == Calls(MaxCalls) \/ Completions

SpecFailing == InitFailing /\ [][NextFailing]_vars

\* every outside call returns or throws in the end and every timer fires:
\* a completion that can happen does happen
SpecFair == SpecFailing /\ WF_vars(Completions)

(***************************************************************************)
(* decryptHandle: the decryption of any handle the page passes, used by    *)
(* the page of one record (ui/pages/RecordDetail.tsx) for the score of     *)
(* that record.  It takes no lock and sets no message; it returns the      *)
(* cleartext to its caller or throws.                                      *)
(***************************************************************************)
\* !(!contract.address || !instance || !ethersSigner)
DecryptHandleReady(ctx) ==
  ctx.address # NoAddress /\ ctx.instance /\ ctx.signer # NoSigner

\* the call ends: it returns ("ok") or throws
DecryptHandleEnded(c, status) ==
  /\ handleDecrypts' = handleDecrypts \ {c}
  /\ ended' = {Outcome("decryptHandle", c.ctx, status, c.did)}

\* decryptHandle(handleToDecrypt), up to its first await (loadOrSign)
DecryptHandle(handleToDecrypt) ==
  LET c == [id |-> FreePlace(handleDecrypts), pc |-> "loadOrSign",
            ctx |-> Closure, handleToDecrypt |-> handleToDecrypt,
            did |-> {"loadOrSign"}]
  IN  /\ HasPlace(handleDecrypts)
      /\ numCalls' = numCalls + 1
      /\ IF ~DecryptHandleReady(Closure)
         THEN /\ ended' = {Outcome("decryptHandle", Closure, "NotReady", {})}
              /\ UNCHANGED handleDecrypts
         ELSE /\ handleDecrypts' = handleDecrypts \cup {c}
              /\ UNCHANGED ended
      /\ UNCHANGED <<contextVars, message, handle, clear, lastTxHash,
                     isRefreshingRef, isDecryptingRef, isSubmittingRef,
                     initRefreshKeyRef, lastRefreshKeyRef, lastRefreshAtRef,
                     dateNow, reads, decrypts, submits, numTx, readAt>>
      /\ UNCHANGED <<ledgerVars, blockTimestamp, lastCall, accepted>>

\* loadOrSign returned: a signature, nothing, or it threw
DecryptHandleSigned(c, sig) ==
  /\ c \in handleDecrypts
  /\ c.pc = "loadOrSign"
  /\ CASE sig = "throws" -> DecryptHandleEnded(c, "Failed")
       [] sig = "null" -> DecryptHandleEnded(c, "NoSignature")
       [] OTHER ->
            /\ handleDecrypts' =
                 (handleDecrypts \ {c})
                   \cup {[c EXCEPT !.pc = "userDecrypt",
                                   !.did = @ \cup {"userDecrypt"}]}
            /\ UNCHANGED ended
  /\ UNCHANGED <<contextVars, message, handle, clear, lastTxHash,
                 isRefreshingRef, isDecryptingRef, isSubmittingRef,
                 initRefreshKeyRef, lastRefreshKeyRef, lastRefreshAtRef,
                 dateNow, reads, decrypts, submits, numCalls, numTx, readAt>>
  /\ UNCHANGED <<ledgerVars, blockTimestamp, lastCall, accepted>>

\* userDecrypt returned the cleartext, which the call returns, or threw
DecryptHandleReplied(c, threw) ==
  /\ c \in handleDecrypts
  /\ c.pc = "userDecrypt"
  /\ IF threw \/ ~MayDecrypt(c.handleToDecrypt, c.ctx.signer, c.ctx.address)
     THEN DecryptHandleEnded(c, "Failed")
     ELSE DecryptHandleEnded(c, "ok")
  /\ UNCHANGED <<contextVars, message, handle, clear, lastTxHash,
                 isRefreshingRef, isDecryptingRef, isSubmittingRef,
                 initRefreshKeyRef, lastRefreshKeyRef, lastRefreshAtRef,
                 dateNow, reads, decrypts, submits, numCalls, numTx, readAt>>
  /\ UNCHANGED <<ledgerVars, blockTimestamp, lastCall, accepted>>

\* the handles the page of a record holds: getEncryptedResultScore(record.id)
\* of a record listed, none of them the zero handle
ScoreHandles ==
  {HandleStr(GetEncryptedResultScore(id)) :
     id \in DOMAIN encryptedScoreByResultId}

(***************************************************************************)
(* The page of a record on a ledger that holds one result of alice, with   *)
(* alice connected: the page asks for the score's cleartext, the wallet    *)
(* may leave the chain or switch accounts meanwhile, and each outside call *)
(* returns or throws.                                                      *)
(***************************************************************************)
InitDetail == StartsAs(AfterGames(1)) /\ Connected

NextDetail ==
  \/ NoteOutcome
  \/ \E chain \in Chains \ {HomeChain} :
       ended = {} /\ Rendered(chain, ethersSigner, instance)
  \/ \E signer \in Participants :
       /\ ended = {} /\ numCalls < MaxCalls
       /\ Rendered(chainId, signer, instance)
  \/ \E r \in reads : ended = {} /\ RefreshReplied(r)
  \/ \E str \in ScoreHandles :
       ended = {} /\ numCalls < MaxCalls /\ DecryptHandle(str)
  \/ \E c \in handleDecrypts, sig \in {"signature", "null", "throws"} :
       ended = {} /\ DecryptHandleSigned(c, sig)
  \/ \E c \in handleDecrypts, threw \in BOOLEAN :
       ended = {} /\ DecryptHandleReplied(c, threw)

SpecDetail == InitDetail /\ [][NextDetail]_vars

(***************************************************************************)
(* What the history of accepted submissions says, per participant          *)
(***************************************************************************)
SubmissionsOf(p) == SelectSeq(accepted, LAMBDA a : a.player = p)

RECURSIVE ScoreSum(_)
ScoreSum(subs) ==
  IF subs = <<>> THEN ZeroWide
  ELSE AddWide(ScoreSum(SubSeq(subs, 1, Len(subs) - 1)), subs[Len(subs)].score)

RECURSIVE PublicSum(_)
PublicSum(subs) ==
  IF subs = <<>> THEN 0
  ELSE PublicSum(SubSeq(subs, 1, Len(subs) - 1)) + subs[Len(subs)].scorePublic

PublicMax(subs) ==
  IF subs = <<>> THEN 0
  ELSE CHOOSE m \in {subs[i].scorePublic : i \in DOMAIN subs} :
         \A i \in DOMAIN subs : subs[i].scorePublic <= m

\* a step in which a call is executed, and the call
IsCall == lastCall = NoCall /\ lastCall' # NoCall
Failures == {"ProofInvalid", "AlreadyClaimed", "ConditionsNotMet", "UnknownBadge"}

ClaimEventsOf(badgeId, p) ==
  {i \in DOMAIN events :
     /\ events[i].name = "BadgeClaimed"
     /\ events[i].badgeId = badgeId
     /\ events[i].player = p}

\* the badge table as the specification gives it
TablePredicate(badgeId, s, now) ==
  CASE badgeId = 1 -> s.numGames >= 1
    [] badgeId = 2 -> s.totalPublicScore >= 10
    [] badgeId = 3 -> s.maxSinglePublicScore >= 20
    [] badgeId = 4 -> s.numGames >= 3 /\ s.lastPlayedAt + 7 * 24 * 60 * 60 >= now
    [] badgeId = 5 -> s.lastPlayedAt + 24 * 60 * 60 >= now
    [] badgeId = 6 -> s.numGames >= 10
    [] OTHER -> FALSE

(***************************************************************************)
(* C1  The aggregate of a participant decrypts to the sum of the scores of *)
(* that participant's accepted submissions, whatever other participants    *)
(* submit in between.                                                      *)
(***************************************************************************)
\* C1 as stated: the cleartext of totalOf(p) equals s1 + ... + sn
C1_AggregateIsSum ==
  \A p \in Participants :
    SubmissionsOf(p) # <<>> =>
      /\ IsInitialized(GetEncryptedTotalScore(p))
      /\ Wide(Cleartext(GetEncryptedTotalScore(p))) = ScoreSum(SubmissionsOf(p))

\* C1 amended: the cleartext of totalOf(p) equals (s1 + ... + sn) mod 2^32
C1_AggregateIsSumMod32 ==
  \A p \in Participants :
    SubmissionsOf(p) # <<>> =>
      /\ IsInitialized(GetEncryptedTotalScore(p))
      /\ Cleartext(GetEncryptedTotalScore(p)) = Low32(ScoreSum(SubmissionsOf(p)))

\* two submissions of one participant, whose sum passes 2^32, around one of
\* another participant
C1_Witness ==
  \E p \in Participants, q \in Participants :
    /\ p # q
    /\ Len(accepted) = 3
    /\ accepted[1].player = p /\ accepted[2].player = q /\ accepted[3].player = p
    /\ ScoreSum(SubmissionsOf(p))[1] = 1

(***************************************************************************)
(* C2  numGames of every participant is the number of accepted submissions *)
(* of that participant, in every reachable state.                          *)
(***************************************************************************)
C2_GamesPlayedIsCount ==
  \A p \in Participants :
    GetPlayerStats(p).numGames = Len(SubmissionsOf(p))

C2_Witness ==
  \E p \in Participants, q \in Participants :
    /\ p # q
    /\ Len(SubmissionsOf(p)) = 2
    /\ Len(SubmissionsOf(q)) = 1
    /\ \E i \in DOMAIN accepted : accepted[i].scorePublic = 0

(***************************************************************************)
(* C3  totalPublicScore is the sum and maxSinglePublicScore the maximum of *)
(* the participant's public scores, lastPlayedAt the time of the latest    *)
(* submission; with no submission all four fields are zero.                *)
(***************************************************************************)
C3_PublicStats ==
  \A p \in Participants :
    LET subs == SubmissionsOf(p)
        s == GetPlayerStats(p)
    IN  IF subs = <<>>
        THEN /\ s.numGames = 0
             /\ s.totalPublicScore = 0
             /\ s.maxSinglePublicScore = 0
             /\ s.lastPlayedAt = 0
        ELSE /\ s.totalPublicScore = PublicSum(subs)
             /\ s.maxSinglePublicScore = PublicMax(subs)
             /\ s.lastPlayedAt = subs[Len(subs)].at

\* a lower public score submitted after a higher one, in a later block, while
\* another participant has not played
C3_Witness ==
  \E p \in Participants, q \in Participants :
    LET subs == SubmissionsOf(p)
    IN  /\ Len(subs) = 2
        /\ subs[1].scorePublic > subs[2].scorePublic
        /\ subs[1].at < subs[2].at
        /\ SubmissionsOf(q) = <<>>

(***************************************************************************)
(* C4  Result ids are 1, 2, 3, ... in the order of acceptance, across all  *)
(* participants, and nextResultId is one more than the number accepted.    *)
(***************************************************************************)
C4_DenseIds ==
  /\ nextResultId = 1 + Len(accepted)
  /\ \A i \in DOMAIN accepted : accepted[i].id = i
  /\ DOMAIN encryptedScoreByResultId = 1..Len(accepted)
  /\ lastCall.op = "submitResult" /\ lastCall.status = "ok"
       => lastCall.ret = Len(accepted)

C4_Witness ==
  /\ Len(accepted) = 3
  /\ accepted[1].player # accepted[2].player
  /\ lastCall.op = "submitResult" /\ lastCall.ret = 3

(***************************************************************************)
(* C5  claimBadge for a claim that is already true fails with              *)
(* AlreadyClaimed, whatever the stats and the time, and leaves the claims, *)
(* the stats, the aggregates and the event log as they were.               *)
(***************************************************************************)
C5_SecondClaimFails ==
  [][(/\ IsCall
      /\ lastCall'.op = "claimBadge"
      /\ badgeClaimed[lastCall'.badgeId][lastCall'.sender])
     => /\ lastCall'.status = "AlreadyClaimed"
        /\ UNCHANGED <<badgeClaimed, playerStats, encryptedTotalScoreByPlayer,
                       events>>]_vars

\* a second claim made when the badge's condition no longer holds
C5_Witness ==
  /\ lastCall.op = "claimBadge"
  /\ lastCall.status = "AlreadyClaimed"
  /\ badgeClaimed[lastCall.badgeId][lastCall.sender]
  /\ ~TablePredicate(lastCall.badgeId, GetPlayerStats(lastCall.sender),
                     blockTimestamp)

(***************************************************************************)
(* C6  A claim flag turns true only in a successful claimBadge of its      *)
(* owner for that badge, made while the badge's condition holds; it never  *)
(* turns false again; the log never holds two BadgeClaimed events for one  *)
(* (badge, owner).                                                         *)
(***************************************************************************)
C6_ClaimedOnceForGood ==
  /\ [][\A b \in BadgeIds, p \in Participants :
          /\ (~badgeClaimed[b][p] /\ badgeClaimed'[b][p])
               => /\ lastCall' = CallRecord("claimBadge", p, b, "ok", 0)
                  /\ TablePredicate(b, GetPlayerStats(p), blockTimestamp)
          /\ badgeClaimed[b][p] => badgeClaimed'[b][p]]_vars
  /\ [](\A b \in BadgeIds, p \in Participants :
          Cardinality(ClaimEventsOf(b, p)) <= 1)

\* a claim that stayed true through a later submission of its owner and a
\* later failed claim
C6_Witness ==
  \E b \in BadgeIds, p \in Participants :
    /\ badgeClaimed[b][p]
    /\ Cardinality(ClaimEventsOf(b, p)) = 1
    /\ events[Len(events)].name = "ResultSubmitted"
    /\ events[Len(events)].player = p
    /\ lastCall.op = "claimBadge" /\ lastCall.status = "AlreadyClaimed"
    /\ lastCall.badgeId = b /\ lastCall.sender = p

(***************************************************************************)
(* C7  For a badge of the table whose claim is still false, claimBadge     *)
(* succeeds exactly when the table's condition holds on the caller's stats *)
(* and the current time, and fails with ConditionsNotMet otherwise.        *)
(***************************************************************************)
C7_ClaimFollowsTable ==
  [][(/\ IsCall
      /\ lastCall'.op = "claimBadge"
      /\ lastCall'.badgeId \in 1..6
      /\ ~badgeClaimed[lastCall'.badgeId][lastCall'.sender])
     => IF TablePredicate(lastCall'.badgeId, GetPlayerStats(lastCall'.sender),
                          blockTimestamp)
        THEN /\ lastCall'.status = "ok"
             /\ badgeClaimed'[lastCall'.badgeId][lastCall'.sender]
        ELSE /\ lastCall'.status = "ConditionsNotMet"
             /\ ~badgeClaimed'[lastCall'.badgeId][lastCall'.sender]]_vars

\* the ten-game badge claimed with exactly ten games
C7_Witness ==
  /\ lastCall = CallRecord("claimBadge", lastCall.sender, 6, "ok", 0)
  /\ GetPlayerStats(lastCall.sender).numGames = 10
  /\ badgeClaimed[6][lastCall.sender]

(***************************************************************************)
(* C8  With three games or more and badge 4 unclaimed, claimBadge(4)       *)
(* succeeds at lastPlayedAt + 7 days and fails with ConditionsNotMet at    *)
(* every later time.                                                       *)
(***************************************************************************)
C8_ActiveBoundary ==
  [][(/\ IsCall
      /\ lastCall'.op = "claimBadge"
      /\ lastCall'.badgeId = 4
      /\ ~badgeClaimed[4][lastCall'.sender]
      /\ GetPlayerStats(lastCall'.sender).numGames >= 3)
     => LET deadline ==
              GetPlayerStats(lastCall'.sender).lastPlayedAt + 7 * 24 * 60 * 60
        IN  /\ blockTimestamp = deadline => lastCall'.status = "ok"
            /\ blockTimestamp > deadline
                 => lastCall'.status = "ConditionsNotMet"]_vars

\* badge 4 claimed in the block whose timestamp is lastPlayedAt + 7 days
C8_Witness ==
  /\ lastCall = CallRecord("claimBadge", lastCall.sender, 4, "ok", 0)
  /\ GetPlayerStats(lastCall.sender).numGames >= 3
  /\ blockTimestamp =
       GetPlayerStats(lastCall.sender).lastPlayedAt + 7 * 24 * 60 * 60

\* badge 4 refused one second later
C8_LateRefused ==
  /\ lastCall = CallRecord("claimBadge", lastCall.sender, 4, "ConditionsNotMet", 0)
  /\ GetPlayerStats(lastCall.sender).numGames >= 3
  /\ blockTimestamp =
       GetPlayerStats(lastCall.sender).lastPlayedAt + 7 * 24 * 60 * 60 + 1

(***************************************************************************)
(* C9  claimBadge for an id outside 1..6 fails with UnknownBadge, sets no  *)
(* claim and emits no event; no claim for such an id is ever true.         *)
(***************************************************************************)
C9_UnknownBadge ==
  /\ [][(/\ IsCall
         /\ lastCall'.op = "claimBadge"
         /\ lastCall'.badgeId \notin 1..6)
        => /\ lastCall'.status = "UnknownBadge"
           /\ UNCHANGED <<badgeClaimed, events>>]_vars
  /\ [](\A b \in BadgeIds \ (1..6), p \in Participants : ~badgeClaimed[b][p])

C9_Witness ==
  /\ lastCall.op = "claimBadge"
  /\ lastCall.badgeId = 0
  /\ lastCall.status = "UnknownBadge"
  /\ GetPlayerStats(lastCall.sender).numGames >= 10

(***************************************************************************)
(* C10  A call that fails validation leaves the ledger as it was: the      *)
(* counter, the aggregates, the stored scores, the stats, the claims and   *)
(* the event log.                                                          *)
(***************************************************************************)
C10_FailureChangesNothing ==
  [][(IsCall /\ lastCall'.status \in Failures)
     => UNCHANGED <<nextResultId, encryptedTotalScoreByPlayer,
                    encryptedScoreByResultId, playerStats, badgeClaimed,
                    events>>]_vars

\* each kind of failure, met on a ledger that already holds a result
C10_Witness ==
  /\ lastCall.op = "submitResult" /\ lastCall.status = "ProofInvalid"
  /\ Len(accepted) >= 1
  /\ \E b \in BadgeIds, p \in Participants : badgeClaimed[b][p]

(***************************************************************************)
(* C11  getEncryptedTotalScore(p) is the zero handle exactly when p has no *)
(* accepted submission, and a total that is not the zero handle never      *)
(* becomes the zero handle again.                                          *)
(***************************************************************************)
C11_ZeroHandleIffNoSubmission ==
  /\ [](\A p \in Participants :
          ~IsInitialized(GetEncryptedTotalScore(p)) <=> SubmissionsOf(p) = <<>>)
  /\ [][\A p \in Participants :
          IsInitialized(GetEncryptedTotalScore(p))
            => IsInitialized(encryptedTotalScoreByPlayer'[p])]_vars

\* one participant's total has wrapped to the value zero under a handle that
\* is not the zero handle, the other participant has not played
C11_Witness ==
  \E p \in Participants, q \in Participants :
    /\ Len(SubmissionsOf(p)) = 2
    /\ IsInitialized(GetEncryptedTotalScore(p))
    /\ Cleartext(GetEncryptedTotalScore(p)) = Zero32
    /\ SubmissionsOf(q) = <<>>
    /\ GetEncryptedTotalScore(q) = ZeroHandle

(***************************************************************************)
(* What the client's history says                                          *)
(***************************************************************************)
\* the handle string is absent or stands for the zero handle
NoCiphertextIn(str) == str = Undefined \/ str[1] = [hex |-> ZeroHandle]

\* the pending decrypt calls that are past the guards
Decrypting == {d \in decrypts : d.pc # "waitForRefresh"}

\* the pending call x is no longer where it was: it has taken a step
Stepped(x, pendingAfter) ==
  \A y \in pendingAfter : ~(y.id = x.id /\ y.pc = x.pc)

\* the chain, the address or the signer is not the one of the closure
Differs(ctx) ==
  \/ ctx.chainId # chainId
  \/ ctx.address # ContractAddress(chainId)
  \/ ctx.signer # ethersSigner

(***************************************************************************)
(* C12  A decryptEncryptedTotal call made while the stored handle is       *)
(* absent or the zero handle calls neither loadOrSign nor userDecrypt,     *)
(* does not set the decrypting flag and leaves the cleartext as it is; it  *)
(* ends with NoCiphertext when the guards before that one pass (no decrypt *)
(* in progress; address, instance and signer there), and with              *)
(* AlreadyInProgress or NotReady when they do not.                         *)
(***************************************************************************)
C12_NoCiphertextNoEffect ==
  /\ [](\A d \in decrypts :
          NoCiphertextIn(d.ctx.handle) => d.pc = "waitForRefresh" /\ d.did = {})
  /\ [][\A o \in ended' :
          (o.kind = "decrypt" /\ NoCiphertextIn(o.ctx.handle))
            => /\ o.did = {}
               /\ UNCHANGED <<isDecryptingRef, clear>>
               /\ o.status =
                    IF isDecryptingRef THEN "AlreadyInProgress"
                    ELSE IF o.ctx.address = NoAddress \/ ~o.ctx.instance
                            \/ o.ctx.signer = NoSigner
                    THEN "NotReady"
                    ELSE "NoCiphertext"]_vars

\* the claim as stated: such a call always ends with NoCiphertext
C12_AlwaysNoCiphertext ==
  [][\A o \in ended' :
       (o.kind = "decrypt" /\ NoCiphertextIn(o.ctx.handle))
         => /\ o.status = "NoCiphertext"
            /\ o.did = {}
            /\ UNCHANGED <<isDecryptingRef, clear>>]_vars

\* bob, who has no result, asked for his total with the zero handle read from
\* the ledger, and waited for a refresh first
C12_Witness ==
  \E o \in ended :
    /\ o.kind = "decrypt" /\ o.status = "NoCiphertext"
    /\ o.ctx.signer = "bob"
    /\ o.ctx.handle = Defined(HandleStr(ZeroHandle))
    /\ o.waited

C14_WaitsForRefresh ==
  /\ [](\A d \in Waiting :
          /\ dateNow - d.since <= DecryptWaitMs
          /\ dateNow - d.since = DecryptWaitMs => ENABLED DecryptWaited(d))
  /\ [][/\ (isRefreshingRef /\ numCalls' = numCalls + 1)
             => /\ \A o \in ended' : o.kind # "decrypt"
                /\ \A d \in decrypts' :
                     (\A e \in decrypts : e.id # d.id)
                       => d.pc = "waitForRefresh" /\ d.since = dateNow
        /\ \A d \in Waiting :
             Stepped(d, decrypts')
               => /\ ~isRefreshingRef \/ dateNow - d.since >= DecryptWaitMs
                  /\ \/ \E o \in ended' :
                          /\ o.kind = "decrypt" /\ o.ctx = d.ctx /\ o.waited
                          /\ o.status \in {"AlreadyInProgress", "NotReady",
                                           "NoCiphertext"}
                          /\ o.status = "AlreadyInProgress" => isDecryptingRef
                          /\ UNCHANGED isDecryptingRef
                     \/ /\ ended' = {}
                        /\ ~isDecryptingRef /\ isDecryptingRef'
                        /\ \E e \in decrypts' :
                             e.id = d.id /\ e.pc = "loadOrSign" /\ e.ctx = d.ctx]_vars

\* the claim as stated: with no decrypt holding the lock when the call is made,
\* the call never ends with AlreadyInProgress
C14_NeverAlreadyInProgress ==
  [][\A d \in Waiting :
       (Stepped(d, decrypts') /\ ~d.busy)
         => \A o \in ended' :
              ~(o.kind = "decrypt" /\ o.status = "AlreadyInProgress")]_vars

\* a call waited its 10 s and went on, holding the lock now, with the refresh
\* still in flight
C14_Witness ==
  /\ isRefreshingRef /\ reads # {}
  /\ \E d \in decrypts :
       /\ d.pc = "loadOrSign" /\ d.waited
       /\ dateNow = DecryptWaitMs

(***************************************************************************)
(* C15  When the signer, the ledger address or the chain has changed       *)
(* between the start of a refresh and the reply to its ledger read, the    *)
(* reply is discarded: the stored handle and the stored cleartext stay as  *)
(* they were.                                                              *)
(***************************************************************************)
C15_StaleRefreshDiscarded ==
  [][\A r \in reads :
       (/\ r \notin reads'
        /\ \/ r.ctx.signer # ethersSigner
           \/ r.ctx.address # ContractAddress(chainId)
           \/ r.ctx.chainId # chainId)
         => UNCHANGED <<handle, clear>>]_vars

(***************************************************************************)
(* C16  When the chain, the signer or the ledger address is not the one a  *)
(* decryptEncryptedTotal call was made with at the moment loadOrSign or    *)
(* userDecrypt returns to it, the call ends there: after loadOrSign        *)
(* without calling userDecrypt, after userDecrypt without storing the      *)
(* cleartext; both times with an 'ignored' message and the decrypting flag *)
(* cleared.                                                                *)
(***************************************************************************)
C16_StaleDecryptIgnored ==
  [][\A d \in Decrypting :
       (Stepped(d, decrypts') /\ Differs(d.ctx))
         => /\ UNCHANGED clear
            /\ ~isDecryptingRef'
            /\ \A e \in decrypts' : e.id # d.id
            /\ \E o \in ended' :
                 /\ o.kind = "decrypt" /\ o.ctx = d.ctx
                 /\ d.pc = "loadOrSign"
                      => /\ o.status = "Ignored" /\ o.did = {"loadOrSign"}
                         /\ message' = "ignoredRequest"
                 /\ (/\ d.pc = "userDecrypt"
                     /\ MayDecrypt(d.ctx.handle[1], d.ctx.signer, d.ctx.address))
                      => /\ o.status = "Ignored"
                         /\ o.did = {"loadOrSign", "userDecrypt"}
                         /\ message' = "ignoredResult"]_vars

\* the signer changed while userDecrypt was under way, and the cleartext it
\* returned was dropped
C16_Witness ==
  \E o \in ended :
    /\ o.kind = "decrypt" /\ o.status = "Ignored"
    /\ o.did = {"loadOrSign", "userDecrypt"}
    /\ message = "ignoredResult"
    /\ o.ctx.signer = "alice" /\ ethersSigner = "bob"
    /\ clear = Undefined
    /\ ~isDecryptingRef

(***************************************************************************)
(* C17  At any moment at most one refresh has a ledger read outstanding,   *)
(* at most one decrypt call holds the decrypting flag and at most one      *)
(* submit call holds the submitting flag, each flag being set exactly      *)
(* while such a call exists; and a decrypt call whose guards run while the *)
(* decrypting flag is set ends with AlreadyInProgress.                     *)
(***************************************************************************)
C17_SingleFlight ==
  /\ [](/\ Cardinality(reads) <= 1
        /\ Cardinality(Decrypting) <= 1
        /\ Cardinality(submits) <= 1
        /\ isRefreshingRef <=> reads # {}
        /\ isDecryptingRef <=> Decrypting # {}
        /\ isSubmittingRef <=> submits # {})
  /\ [][isDecryptingRef
          => /\ \A o \in ended' :
                  (o.kind = "decrypt" /\ o.did = {})
                    => o.status = "AlreadyInProgress"
             /\ \A e \in decrypts' :
                  e.pc = "loadOrSign"
                    => \E d \in decrypts : d.id = e.id /\ d.pc = e.pc]_vars

\* a submit and a decrypt are under way, and a second decrypt call has just
\* been turned away
C17_Witness ==
  /\ Cardinality(Decrypting) = 1 /\ isDecryptingRef
  /\ Cardinality(submits) = 1
  /\ \E o \in ended :
       o.kind = "decrypt" /\ o.status = "AlreadyInProgress" /\ ~o.waited

\* no submit call has got past its guards in this step
NoSubmitEntered ==
  \A e \in submits' : \E s \in submits : s.id = e.id

(***************************************************************************)
(* C18  A submit call made while a refresh or a submit is in flight ends   *)
(* with AlreadyInProgress and without any effect: nothing is encrypted,    *)
(* no transaction is sent, the three flags, lastTxHash, the message and    *)
(* the ledger are as before.                                               *)
(***************************************************************************)
C18_SubmitWhileBusy ==
  [][(isRefreshingRef \/ isSubmittingRef)
       => /\ NoSubmitEntered
          /\ \A o \in ended' :
               (o.kind = "submit" /\ o.did = {})
                 => /\ o.status = "AlreadyInProgress"
                    /\ UNCHANGED <<isRefreshingRef, isDecryptingRef,
                                   isSubmittingRef, lastTxHash, numTx, message,
                                   submits, ledgerVars>>]_vars

\* a submit call was turned away because of a refresh, with nobody submitting
C18_Witness ==
  /\ isRefreshingRef /\ ~isSubmittingRef /\ submits = {}
  /\ \E o \in ended :
       /\ o.kind = "submit" /\ o.status = "AlreadyInProgress" /\ o.did = {}
       /\ SubmitReady(o.ctx)

(***************************************************************************)
(* C19  A submit call made with no refresh and no submit in flight, but    *)
(* without a signer, a ledger address or an FHEVM instance, ends with      *)
(* NotReady: the submitting flag is not set and no transaction is sent.    *)
(***************************************************************************)
C19_SubmitNotReady ==
  [][(/\ ~isRefreshingRef /\ ~isSubmittingRef
      /\ \/ ethersSigner = NoSigner
         \/ ContractAddress(chainId) = NoAddress
         \/ ~instance)
       => /\ NoSubmitEntered
          /\ \A o \in ended' :
               (o.kind = "submit" /\ o.did = {})
                 => /\ o.status = "NotReady"
                    /\ UNCHANGED <<isSubmittingRef, lastTxHash, numTx, submits,
                                   ledgerVars>>]_vars

\* a submit call was turned away for the missing FHEVM instance alone
C19_Witness ==
  /\ ~isRefreshingRef /\ ~isSubmittingRef /\ ~instance
  /\ \E o \in ended :
       /\ o.kind = "submit" /\ o.status = "NotReady"
       /\ o.ctx.signer # NoSigner /\ o.ctx.address # NoAddress
       /\ ~o.ctx.instance

(***************************************************************************)
(* C20  When the chain, the signer or the ledger address is not the one a  *)
(* submit call was made with at the moment its input is encrypted, the     *)
(* call ends there with the 'cancelled' error: submitResult is not sent,   *)
(* the ledger is as before and the submitting flag is cleared.             *)
(***************************************************************************)
C20_StaleSubmitCancelled ==
  [][\A s \in submits :
       (s.pc = "encrypt" /\ Stepped(s, submits') /\ Differs(s.ctx))
         => /\ \E o \in ended' :
                 /\ o.kind = "submit" /\ o.ctx = s.ctx
                 /\ o.status = "Cancelled"
                 /\ o.did = {"encrypt"}
            /\ \A e \in submits' : e.id # s.id
            /\ ~isSubmittingRef'
            /\ UNCHANGED <<ledgerVars, numTx, lastTxHash>>]_vars

\* alice's submit was cancelled after the wallet went over to bob
C20_Witness ==
  /\ ~isSubmittingRef /\ submits = {} /\ numTx = 0
  /\ ethersSigner = "bob"
  /\ \E o \in ended :
       /\ o.kind = "submit" /\ o.status = "Cancelled"
       /\ o.ctx.signer = "alice"
       /\ o.did = {"encrypt"}

\* the addresses allowed to decrypt the handle h
Grantees(h) == {pair[2] : pair \in {x \in acl : x[1] = h}}

(***************************************************************************)
(* C23  In every state of the ledger, the addresses allowed to decrypt a   *)
(* participant's current total, and the score stored for each of that      *)
(* participant's results, are that participant and the contract, no one    *)
(* else; whatever the other participants submit.                           *)
(***************************************************************************)
C23_GrantsAreOwnerAndLedger ==
  /\ \A p \in Participants :
       IsInitialized(GetEncryptedTotalScore(p))
         => Grantees(GetEncryptedTotalScore(p)) = {p, LedgerAddress}
  /\ \A i \in DOMAIN accepted :
       Grantees(encryptedScoreByResultId[accepted[i].id])
         = {accepted[i].player, LedgerAddress}

\* both participants have results on the ledger, alice two of them
C23_Witness ==
  /\ Len(SubmissionsOf("alice")) = 2
  /\ Len(SubmissionsOf("bob")) = 1
  /\ accepted[Len(accepted)].player = "bob"
  /\ Grantees(GetEncryptedTotalScore("alice")) = {"alice", LedgerAddress}
  /\ Grantees(GetEncryptedTotalScore("bob")) = {"bob", LedgerAddress}

\* the ResultSubmitted events of the log, oldest first
ResultEvents(log) == SelectSeq(log, LAMBDA e : e.name = "ResultSubmitted")

\* loadLeaderboard: the total it shows for a player, from the events not
\* older than startBoundary (0 for the filter "all")
RECURSIVE LeaderboardTotal(_, _, _)
LeaderboardTotal(log, player, startBoundary) ==
  IF log = <<>> THEN 0
  ELSE LET event == log[Len(log)]
           rest == LeaderboardTotal(SubSeq(log, 1, Len(log) - 1), player,
                                    startBoundary)
       IN  IF /\ event.name = "ResultSubmitted"
              /\ event.player = player
              /\ event.timestamp >= startBoundary
           THEN rest + event.scorePublic
           ELSE rest

(***************************************************************************)
(* C27  An accepted submitResult appends one ResultSubmitted event with    *)
(* the id it returns, its caller and the public score passed; no other     *)
(* step adds, removes or changes a ResultSubmitted event.  So for every    *)
(* participant the number of these events equals numGames and the          *)
(* leaderboard total over all of them equals totalPublicScore.             *)
(***************************************************************************)
C27_EventsMatchStats ==
  /\ [](\A p \in Participants :
          /\ Len(SelectSeq(ResultEvents(events), LAMBDA e : e.player = p))
               = GetPlayerStats(p).numGames
          /\ LeaderboardTotal(events, p, 0) = GetPlayerStats(p).totalPublicScore)
  /\ [][IF IsCall /\ lastCall'.op = "submitResult" /\ lastCall'.status = "ok"
        THEN /\ Len(events') = Len(events) + 1
             /\ SubSeq(events', 1, Len(events)) = events
             /\ LET event == events'[Len(events')]
                IN  /\ event.name = "ResultSubmitted"
                    /\ event.id = lastCall'.ret
                    /\ event.player = lastCall'.sender
                    /\ event.scorePublic = accepted'[Len(accepted')].scorePublic
        ELSE ResultEvents(events') = ResultEvents(events)]_vars

\* two results of alice are in the log, with a badge claim in between
C27_Witness ==
  /\ Len(events) = 3
  /\ events[1].name = "ResultSubmitted" /\ events[1].player = "alice"
  /\ events[2].name = "BadgeClaimed"
  /\ events[3].name = "ResultSubmitted" /\ events[3].player = "alice"
  /\ events[3].scorePublic = 7
  /\ LeaderboardTotal(events, "alice", 0) = 12

(***************************************************************************)
(* C30  From one state of the ledger to the next, numGames,                *)
(* totalPublicScore and maxSinglePublicScore of a participant never        *)
(* decrease, whatever the step.                                            *)
(***************************************************************************)
C30_StatsNeverDecrease ==
  [][\A p \in Participants :
       /\ GetPlayerStats(p).numGames <= playerStats'[p].numGames
       /\ GetPlayerStats(p).totalPublicScore <= playerStats'[p].totalPublicScore
       /\ GetPlayerStats(p).maxSinglePublicScore
            <= playerStats'[p].maxSinglePublicScore]_vars

\* alice scored 7 and then, a day later, 5: the maximum stayed, the time of
\* the last game did not
C30_Witness ==
  /\ Len(SubmissionsOf("alice")) = 2
  /\ SubmissionsOf("alice")[1].scorePublic = 7
  /\ SubmissionsOf("alice")[2].scorePublic = 5
  /\ GetPlayerStats("alice").maxSinglePublicScore = 7
  /\ GetPlayerStats("alice").totalPublicScore = 12
  /\ SubmissionsOf("alice")[1].at = StartTime
  /\ GetPlayerStats("alice").lastPlayedAt = StartTime + OneDay

(***************************************************************************)
(* C24  When the read of a refresh returns and the chain, the contract     *)
(* address and the signer the call captured are those of the wallet now,   *)
(* the handle becomes the one the ledger returned for that signer and the  *)
(* cleartext becomes undefined: for a zero handle and for a non-zero one,  *)
(* for a new handle and for the one already stored.                        *)
(***************************************************************************)
C24_ReplyStoredAndClearReset ==
  [][\A r \in reads :
       (/\ r \notin reads'
        /\ \A o \in ended' : ~(o.kind = "refresh" /\ o.status = "Failed")
        /\ ~Differs(r.ctx))
         => /\ handle' = Defined(HandleStr(GetEncryptedTotalScore(r.ctx.signer)))
            /\ clear' = Undefined]_vars

\* a refresh has just stored again the non-zero handle the hook already had
C24_Witness ==
  \E o \in ended :
    /\ o.kind = "refresh" /\ o.status = "ok" /\ o.did = {"read"}
    /\ ~Differs(o.ctx)
    /\ HasCiphertext(handle)
    /\ o.ctx.handle = handle
    /\ clear = Undefined
    /\ numCalls >= 2

(***************************************************************************)
(* C25  A refresh called while the refreshing lock is held issues no read  *)
(* and ends at once; the step of that call leaves the handle, the          *)
(* cleartext, the throttle key and time and the pending reads as they      *)
(* were, and so the lock flags, but for the lock of a submit that calls    *)
(* the refresh as it returns.                                              *)
(***************************************************************************)
C25_RefreshWhileRefreshing ==
  [][/\ isRefreshingRef => reads' \subseteq reads
     /\ \A o \in ended' :
          (o.kind = "refresh" /\ o.did = {} /\ isRefreshingRef)
            => o.status = "AlreadyInProgress"
     /\ \A o \in ended' :
          (o.kind = "refresh" /\ o.status = "AlreadyInProgress")
            => /\ isRefreshingRef /\ o.did = {}
               /\ UNCHANGED <<handle, clear, lastRefreshKeyRef,
                              lastRefreshAtRef, reads, readAt,
                              isRefreshingRef, isDecryptingRef>>
               /\ \/ UNCHANGED isSubmittingRef
                  \/ \E e \in ended' : e.kind = "submit" /\ e.status = "ok"]_vars

\* a second refresh has just ended at once; the read of the first is pending
C25_Witness ==
  /\ isRefreshingRef
  /\ Cardinality(reads) = 1
  /\ \E o \in ended :
       o.kind = "refresh" /\ o.status = "AlreadyInProgress" /\ o.did = {}

(***************************************************************************)
(* C28  A decrypt called while a submit holds its lock and no refresh is   *)
(* in flight does not wait: in the step of the call it meets the lock, the *)
(* readiness and the handle guards, in that order, and no outcome refers   *)
(* to the submit, which is left as it was.                                 *)
(***************************************************************************)
C28_DecryptDuringSubmit ==
  [][(/\ numCalls' = numCalls + 1
      /\ decrypts' # decrypts \/ \E o \in ended' : o.kind = "decrypt"
      /\ isSubmittingRef /\ ~isRefreshingRef)
       => /\ Waiting' = Waiting
          /\ UNCHANGED <<submits, isSubmittingRef>>
          /\ LET ctx == Closure
                 ends(status) ==
                   /\ decrypts' = decrypts
                   /\ \E o \in ended' :
                        /\ o.kind = "decrypt" /\ o.status = status
                        /\ o.ctx = ctx /\ ~o.waited
             IN  IF isDecryptingRef THEN ends("AlreadyInProgress")
                 ELSE IF ctx.address = NoAddress \/ ~ctx.instance
                           \/ ctx.signer = NoSigner
                 THEN ends("NotReady")
                 ELSE IF ~HasCiphertext(ctx.handle) THEN ends("NoCiphertext")
                 ELSE /\ ended' = {}
                      /\ isDecryptingRef'
                      /\ \E d \in decrypts' \ decrypts :
                           d.pc = "loadOrSign" /\ d.ctx = ctx /\ ~d.waited]_vars

\* a decrypt has entered at once while a submit is at its first await
C28_Witness ==
  /\ isSubmittingRef /\ ~isRefreshingRef /\ reads = {}
  /\ message = "decryptStarting"
  /\ \E s \in submits : s.pc = "encrypt"
  /\ \E d \in decrypts : d.pc = "loadOrSign" /\ ~d.waited

(***************************************************************************)
(* C21  A submit returns the hash ("ok") only in the step in which the     *)
(* wait for the confirmation of its transaction returns: the transaction   *)
(* was sent and the ledger has run it; in that step, and in no earlier     *)
(* step of the submit, refreshEncryptedTotal is called with the submit's   *)
(* closure.  A submit that ends in any other way returns no hash, and the  *)
(* step in which it ends calls no refresh.                                 *)
(***************************************************************************)
RefreshInvoked(ctx) ==
  \/ \E o \in ended' : o.kind = "refresh" /\ o.did = {} /\ o.ctx = ctx
  \/ \E r \in reads' \ reads : r.ctx = ctx

NoRefreshInvoked ==
  /\ reads' = reads
  /\ \A o \in ended' : o.kind # "refresh"
  /\ UNCHANGED <<handle, isRefreshingRef, lastRefreshKeyRef, lastRefreshAtRef,
                 readAt>>

C21_HashAfterConfirmationThenRefresh ==
  [][/\ \A s \in submits :
          Stepped(s, submits')
            => IF \E o \in ended' : o.kind = "submit" /\ o.status = "ok"
               THEN /\ s.pc = "wait"
                    /\ lastCall.op = "submitResult" /\ lastCall.status = "ok"
                    /\ lastCall.sender = s.ctx.signer
                    /\ lastTxHash # Undefined
                    /\ {"encrypt", "submitResult"} \subseteq s.did
                    /\ s \notin submits'
                    /\ numCalls' = numCalls + 1
                    /\ RefreshInvoked(s.ctx)
               ELSE /\ numCalls' = numCalls
                    /\ NoRefreshInvoked
     /\ \A o \in ended' :
          (o.kind = "submit" /\ o.status # "ok") => NoRefreshInvoked
     /\ \A o \in ended' :
          (o.kind = "submit" /\ o.status = "ok")
            => \E s \in submits : s.pc = "wait" /\ s.ctx = o.ctx]_vars

\* a submit has just returned its hash; the ledger holds its result and the
\* read of the refresh it called is pending
C21_Witness ==
  /\ \E o \in ended : o.kind = "submit" /\ o.status = "ok"
  /\ lastTxHash = Defined(TxHash(1))
  /\ Len(accepted) = 2
  /\ submits = {}
  /\ ~isSubmittingRef
  /\ readAt.by = "submit"
  /\ Cardinality(reads) = 1

(***************************************************************************)
(* C22  The submitting lock is held exactly while a submit is between its  *)
(* guards and its end.  The step in which such a submit ends, by success,  *)
(* by a failure of the encryption, of the sending or of the confirmation,  *)
(* or by the staleness abort, clears the lock; a submit that does not      *)
(* succeed throws (Failed, Cancelled) and leaves the failure message.  A   *)
(* submit is rejected as busy only while a submit or a refresh is in       *)
(* flight, never by the lock of a submit that has ended.                   *)
(***************************************************************************)
C22_LockReleasedOnEveryExit ==
  /\ [](isSubmittingRef <=> submits # {})
  /\ [][/\ \A s \in submits :
             (\A y \in submits' : y.id # s.id)
               => /\ ~isSubmittingRef'
                  /\ \E o \in ended' :
                       /\ o.kind = "submit" /\ o.ctx = s.ctx
                       /\ o.status \in {"ok", "Failed", "Cancelled"}
                       /\ o.status # "ok" => message' = "submitFailed"
        /\ \A o \in ended' :
             (o.kind = "submit" /\ o.status = "AlreadyInProgress")
               => submits # {} \/ isRefreshingRef]_vars

(***************************************************************************)
(* C22 as stated: once a submit has ended and no submit is in flight, a    *)
(* new submit is not rejected as busy on account of the earlier one, not   *)
(* even while the read of the refresh that the earlier one called when it  *)
(* returned is pending.                                                    *)
(***************************************************************************)
C22_NeverRejectedAfterSubmit ==
  [][\A o \in ended' :
       (o.kind = "submit" /\ o.status = "AlreadyInProgress")
         => submits # {} \/ (isRefreshingRef /\ readAt.by # "submit")]_vars

\* the confirmation of a transaction sent has just failed: the submit threw,
\* its lock is released
C22_Witness ==
  /\ \E o \in ended :
       /\ o.kind = "submit" /\ o.status = "Failed"
       /\ o.did = {"encrypt", "submitResult"}
  /\ lastTxHash = Defined(TxHash(1))
  /\ message = "submitFailed"
  /\ ~isSubmittingRef
  /\ submits = {}

(***************************************************************************)
(* C26  When loadOrSign returns no signature or throws, the decrypt call   *)
(* ends in that step: userDecrypt was not called and is not called, no     *)
(* second loadOrSign is pending, the handle and the cleartext are as       *)
(* before, the message tells the failure and the decrypting lock is clear. *)
(***************************************************************************)
C26_NoCapabilityEndsTheCall ==
  [][\A d \in decrypts :
       (/\ d.pc = "loadOrSign"
        /\ Stepped(d, decrypts')
        /\ \A y \in decrypts' : y.id # d.id)
         => \E o \in ended' :
              /\ o.kind = "decrypt" /\ o.ctx = d.ctx
              /\ o.status \in {"NoSignature", "Failed", "Ignored"}
              /\ o.did = {"loadOrSign"}
              /\ decrypts' = decrypts \ {d}
              /\ ~isDecryptingRef'
              /\ UNCHANGED <<handle, clear>>
              /\ o.status = "NoSignature" => message' = "noSignature"
              /\ o.status = "Failed" => message' = "decryptFailed"]_vars

\* loadOrSign has just returned nothing: the call is over, the ciphertext's
\* handle is still there
C26_Witness ==
  /\ \E o \in ended :
       /\ o.kind = "decrypt" /\ o.status = "NoSignature"
       /\ o.did = {"loadOrSign"}
  /\ message = "noSignature"
  /\ ~isDecryptingRef
  /\ Decrypting = {}
  /\ HasCiphertext(handle)
  /\ clear = Undefined

(***************************************************************************)
(* C29  If every outside call returns or throws in the end and every timer *)
(* fires, then whatever calls are pending and whatever locks are set, a    *)
(* state follows in which no read, decrypt or submit is pending and none   *)
(* of the three locks is set: every call ends and every lock it set is     *)
(* cleared.                                                                *)
(***************************************************************************)
Quiescent ==
  /\ reads = {} /\ decrypts = {} /\ submits = {}
  /\ ~isRefreshingRef /\ ~isDecryptingRef /\ ~isSubmittingRef

C29_EveryCallEnds == []<>Quiescent

\* userDecrypt has just thrown after a transaction of the same session was
\* sent: nothing is pending and no lock is held
C29_Witness ==
  /\ \E o \in ended :
       /\ o.kind = "decrypt" /\ o.status = "Failed"
       /\ o.did = {"loadOrSign", "userDecrypt"}
  /\ lastTxHash # Undefined
  /\ Quiescent

(***************************************************************************)
(* C36  At a block time later than one day after the epoch, a claimBadge   *)
(* call of a participant without an accepted result fails: with            *)
(* ConditionsNotMet for the ids 1..6, with UnknownBadge for the others.    *)
(* A claim flag (id, p) is set only if p has a result.                     *)
(***************************************************************************)
C36_NoResultNoBadge ==
  /\ [](blockTimestamp > OneDay)
  /\ [](\A id \in BadgeIds, p \in Participants :
          badgeClaimed[id][p] => GetPlayerStats(p).numGames >= 1)
  /\ [][(/\ IsCall /\ lastCall'.op = "claimBadge"
         /\ SubmissionsOf(lastCall'.sender) = <<>>)
          => /\ lastCall'.status =
                  (IF lastCall'.badgeId \in KnownBadgeIds
                   THEN "ConditionsNotMet" ELSE "UnknownBadge")
             /\ UNCHANGED badgeClaimed]_vars

\* bob, who has no result, has just been refused the daily badge in the block
\* of alice's latest result
C36_Witness ==
  /\ lastCall.op = "claimBadge" /\ lastCall.sender = "bob"
  /\ lastCall.badgeId = 5 /\ lastCall.status = "ConditionsNotMet"
  /\ SubmissionsOf("bob") = <<>>
  /\ GetPlayerStats("bob").lastPlayedAt = 0
  /\ GetPlayerStats("alice").lastPlayedAt = blockTimestamp

(***************************************************************************)
(* C38  An accepted submitResult of p leaves the aggregate and the stats   *)
(* of every other participant, every claim flag and every score stored     *)
(* before as they were.  An accepted claimBadge(id) of p sets the flag     *)
(* (id, p) and leaves the other flags, the counter, the aggregates, the    *)
(* stored scores and the stats as they were.  A step that is no call of    *)
(* submitResult, claimBadge or updateQuestionPool leaves the ledger as it  *)
(* was.                                                                    *)
(***************************************************************************)
C38_Frame ==
  [][IF IsCall /\ lastCall'.op = "submitResult" /\ lastCall'.status = "ok"
     THEN /\ \A q \in Participants \ {lastCall'.sender} :
               /\ encryptedTotalScoreByPlayer'[q] = encryptedTotalScoreByPlayer[q]
               /\ playerStats'[q] = playerStats[q]
          /\ UNCHANGED badgeClaimed
          /\ \A id \in DOMAIN encryptedScoreByResultId :
               /\ id \in DOMAIN encryptedScoreByResultId'
               /\ encryptedScoreByResultId'[id] = encryptedScoreByResultId[id]
     ELSE IF IsCall /\ lastCall'.op = "claimBadge" /\ lastCall'.status = "ok"
     THEN /\ badgeClaimed' =
               [badgeClaimed EXCEPT ![lastCall'.badgeId][lastCall'.sender] = TRUE]
          /\ ~badgeClaimed[lastCall'.badgeId][lastCall'.sender]
          /\ UNCHANGED <<nextResultId, encryptedTotalScoreByPlayer,
                         encryptedScoreByResultId, playerStats>>
     ELSE IF IsCall /\ lastCall'.op = "updateQuestionPool"
     THEN UNCHANGED <<nextResultId, encryptedTotalScoreByPlayer,
                      encryptedScoreByResultId, playerStats, badgeClaimed>>
     ELSE UNCHANGED ledgerVars]_vars

\* bob's first accepted result came after alice's result and badge: her
\* aggregate, stats, flag and stored score are what they were
C38_Witness ==
  /\ Len(accepted) = 2
  /\ accepted[1].player = "alice" /\ accepted[2].player = "bob"
  /\ lastCall.op = "submitResult" /\ lastCall.sender = "bob"
  /\ lastCall.status = "ok"
  /\ badgeClaimed[1]["alice"] /\ ~badgeClaimed[1]["bob"]
  /\ GetPlayerStats("alice").numGames = 1
  /\ Cleartext(encryptedScoreByResultId[accepted[1].id]) = accepted[1].score

(***************************************************************************)
(* C39  A refresh called while no refresh holds the lock, with a closure   *)
(* that lacks the contract address, the read provider or the signer, ends  *)
(* at once as not ready: the handle becomes undefined, no read is issued,  *)
(* the refreshing lock stays clear, the throttle key and time stay as they *)
(* were.  No read is ever issued for such a closure.                       *)
(***************************************************************************)
Lacking(ctx) ==
  ctx.address = NoAddress \/ ~ctx.provider \/ ctx.signer = NoSigner

C39_RefreshNotReady ==
  [][/\ \A o \in ended' :
          (o.kind = "refresh" /\ o.did = {})
            => (/\ (o.status = "NotReady")
                      <=> (~isRefreshingRef /\ Lacking(o.ctx))
                /\ o.status = "NotReady"
                     => /\ handle' = Undefined
                        /\ reads' = reads
                        /\ ~isRefreshingRef'
                        /\ UNCHANGED <<lastRefreshKeyRef, lastRefreshAtRef,
                                       readAt, clear>>)
     /\ \A r \in reads' \ reads : ~Lacking(r.ctx)]_vars

\* the wallet has left for a chain without the ledger and the refresh button
\* was pressed: the handle of the home chain is gone, the throttle entry is
\* the one of the read at the start
C39_Witness ==
  /\ \E o \in ended :
       /\ o.kind = "refresh" /\ o.status = "NotReady"
       /\ o.ctx.address = NoAddress
       /\ o.ctx.handle # Undefined
  /\ handle = Undefined
  /\ ~isRefreshingRef /\ reads = {}
  /\ lastRefreshKeyRef = RefreshKey(LedgerAddress, "alice")
  /\ lastRefreshAtRef = 0

(***************************************************************************)
(* The preview of the Badges page (ui/pages/Badges.tsx): the stats of the  *)
(* account are read from the ledger (Number() of counters and timestamps   *)
(* far below 2^53 is exact) and compared with the start of the local day.  *)
(***************************************************************************)
OneHour == 3600
SixDays == 6 * OneDay

\* how long a local day lasts: 24 hours, or 23 and 25 where the clocks change
DayLengths == {OneDay - OneHour, OneDay, OneDay + OneHour}

\* the seconds gone since local midnight that are explored: the first and the
\* last second of a day of each length, and the second after 24 hours
ElapsedToday ==
  {e \in {0, OneDay - OneHour - 1, OneDay - 1, OneDay, OneDay + 1,
          OneDay + OneHour - 1} : \E len \in DayLengths : e < len}

\* getTodayStart(): d.setHours(0, 0, 0, 0) on the local clock, in seconds
GetTodayStart(nowSec, elapsed) == nowSec - elapsed

Min(a, b) == IF a < b THEN a ELSE b

\* const playedToday = lastPlayedAt >= today
PlayedToday(s, today) == s.lastPlayedAt >= today

\* const playedWeek = lastPlayedAt >= today - 6 days ? Math.min(games, 3) : 0
PlayedWeek(s, today) ==
  IF s.lastPlayedAt >= today - SixDays THEN Min(s.numGames, MinGamesActive)
  ELSE 0

\* the field unlocked of the six entries of computed
Unlocked(badgeId, s, today) ==
  IF badgeId = 1 THEN s.numGames >= MinGamesFirstTry
  ELSE IF badgeId = 2 THEN s.totalPublicScore >= MinTotalScore
  ELSE IF badgeId = 3 THEN s.maxSinglePublicScore >= MinHighScore
  ELSE IF badgeId = 4 THEN PlayedWeek(s, today) >= MinGamesActive
  ELSE IF badgeId = 5 THEN PlayedToday(s, today)
  ELSE IF badgeId = 6 THEN s.numGames >= MinGamesVeteran
  ELSE FALSE

(***************************************************************************)
(* C37  Whatever the stats of a participant, the block time and the start  *)
(* of the local day at that time, a badge 1..6 that the preview marks      *)
(* unlocked meets the ledger's condition for it on the same stats at the   *)
(* same time.                                                              *)
(***************************************************************************)
C37_UnlockedMeetsCondition ==
  \A p \in Participants, badgeId \in KnownBadgeIds, elapsed \in ElapsedToday :
    Unlocked(badgeId, GetPlayerStats(p),
             GetTodayStart(blockTimestamp, elapsed))
      => BadgeOk(badgeId, GetPlayerStats(p), blockTimestamp)

(***************************************************************************)
(* C32  In every state, whenever the stored cleartext is defined it is the *)
(* decryption of the handle stored at that moment: a decrypt that started  *)
(* on an older handle never leaves its cleartext next to a newer handle.   *)
(***************************************************************************)
C32_ClearIsOfStoredHandle ==
  clear # Undefined =>
    /\ HasCiphertext(handle)
    /\ clear = Defined(Cleartext(FromHandleStr(handle[1])))

(***************************************************************************)
(* C33  When the wait of a decrypt call for a refresh ends and the handle  *)
(* stored by then is another one than the handle stored when the call was  *)
(* made, the handle the call checks for NoCiphertext and goes on to send   *)
(* to the decryption is the handle stored now.                             *)
(***************************************************************************)
C33_DecryptsRefreshedHandle ==
  [][\A d \in decrypts :
       (/\ d.pc = "waitForRefresh"
        /\ Stepped(d, decrypts')
        /\ handle # Undefined
        /\ handle # d.ctx.handle)
         => /\ \A e \in decrypts' : e.id = d.id => e.ctx.handle = handle
            /\ \A o \in ended' :
                 (o.kind = "decrypt" /\ o.status = "NoCiphertext")
                   => ~HasCiphertext(handle)]_vars

(***************************************************************************)
(* C34  Every handle a decryptEncryptedTotal call sends to the decryption  *)
(* was read from the ledger for the signer that call captured: the handle  *)
(* of another account's total is never sent.                               *)
(***************************************************************************)
C34_DecryptsOwnHandle ==
  \A d \in decrypts :
    d.pc = "userDecrypt" => FromHandleStr(d.ctx.handle[1]).user = d.ctx.signer

(***************************************************************************)
(* C35  After a submit returned the hash of its confirmed transaction, the *)
(* handle stored becomes the handle the ledger holds for the submitter     *)
(* since that transaction, unless the account changes or a ledger read     *)
(* fails: the refresh called by the submit is not lost.                    *)
(***************************************************************************)
C35_HandleFollowsSubmit ==
  \A p \in Participants :
    (\E o \in ended :
       /\ o.kind = "submit" /\ o.status = "ok"
       /\ o.ctx.signer = p /\ ~Differs(o.ctx))
      ~> \/ ethersSigner # p
         \/ message = "refreshFailed"
         \/ handle = Defined(HandleStr(GetEncryptedTotalScore(p)))

(***************************************************************************)
(* C31  decryptHandle hands the cleartext to its caller only if the        *)
(* context is unchanged: when the chain, the signer or the ledger address  *)
(* is no longer the one the call started with at the moment the            *)
(* decryption request completes, the call does not return the cleartext.   *)
(***************************************************************************)
C31_StaleHandleResultWithheld ==
  [][\A c \in handleDecrypts :
       (c.pc = "userDecrypt" /\ c \notin handleDecrypts' /\ Differs(c.ctx))
         => \A o \in ended' : o.kind = "decryptHandle" => o.status # "ok"]_vars

====
